---- MODULE Spec2Model ----
(***************************************************************************)
(* gowinbridge: the bounded worker pool (pkg/workerpool) and the process   *)
(* bridge executor (pkg/bridge.Execute), as state machines.                *)
(*                                                                         *)
(* Pool: goroutines are the workers started by Pool.start, the closer      *)
(* goroutine of Pool.start, the callers of Submit / Shutdown / Cancel and  *)
(* the consumer ranging over Results().  Channels are Go buffered          *)
(* channels: a send on a full channel blocks, a send on or a close of a    *)
(* closed channel panics, and a panic ends the process.                    *)
(***************************************************************************)
EXTENDS Integers, Sequences, FiniteSets, TLC

\* ------------------------------------------------------------------ bounds
\* Largest concurrency a pool is constructed with.
MaxN == 2
\* Number of Submit calls made in one run.
MaxJobs == 3
\* runtime.NumCPU() of the host.
NumCPU == 2
\* Number of characters the child writes, to stdout and stderr together.
MaxOut == 2
\* Execute invocations of one process.
MaxCalls == 2
\* Longest native path translated, in tokens (separators and names).
MaxPath == 6
\* Translations computed for one cache key that are followed.
MaxLookups == 2
\* Longest value given to inferWSLEnvFlag, in characters.
MaxValue == 5
\* Longest byte stream given to the auto-detecting reader.
MaxStream == 4
\* Arguments of an invocation whose arguments are examined.
MaxArgs == 2

VARIABLES
    \* --- Pool fields
    concurrency,    \* p.concurrency
    startOnce,      \* p.startOnce has run
    jobs,           \* buffer of p.jobs
    jobsClosed,     \* p.jobs is closed
    sendq,          \* Submit callers blocked in p.jobs <- config
    results,        \* buffer of p.results
    resultsClosed,  \* p.results is closed
    ctxDone,        \* p.ctx is cancelled
    wg,             \* p.wg counter
    \* --- goroutines
    wpc,            \* worker -> "recv" | "select" | "call" | "exec" | "send"
                    \*           | "exited"
    wcur,           \* worker -> config it holds (0: none)
    wres,           \* worker -> Result it is about to push
    wctx,           \* worker -> scope handed to the executor call in progress,
                    \*           and whether Cancel had returned at the call
    wlate,          \* worker -> the config it holds was dequeued after Cancel
                    \*           returned
    closers,        \* closer goroutines in p.wg.Wait()
    shutdownPc,     \* first Shutdown caller: "idle" | "waiting" | "returned"
    consumerPc,     \* consumer: "idle" | "ranging" | "ended"
    panicReason,    \* "none", or the runtime panic that ended the process
    \* --- history
    nSubmitted,     \* Submit calls made so far; the next config is nSubmitted + 1
    accepted,       \* configs whose send on p.jobs completed
    lateIssued,     \* configs passed to Submit after close(p.jobs)
    pushed,         \* every Result sent on p.results, in order
    delivered,      \* every Result the consumer received, in order
    finished,       \* workers whose executor call returned and whose Result
                    \* is not pushed yet, in the order the calls returned
    \* --- package bridge
    wslCheckOnce,   \* wslCheckOnce has run
    wslCheckErr,    \* wslCheckErr
    probes,         \* calls of wsl.IsWSL() made by validateWSL since the
                    \* process started or ResetWSLCheck ran
    ex,             \* invocation -> an Execute invocation: its inputs, its
                    \* position, the child process and the value it returns
    \* --- package wsl: path translation
    pathCache,      \* pathCache: cache key -> memoized result
    mountTableOnce, \* mountTableOnce has run
    mountTable,     \* mountTable
    procMounts,     \* the host's /proc/mounts, as mountTableReader reads it
    tr,             \* caller -> its translation call: position, direction,
                    \*           path given, result and error returned
    lookups,        \* cache key -> calls of toWindowsPathInternal /
                    \*              toLinuxPathInternal since the last clear
    native,         \* the native path a round trip starts from
    \* --- package bridge: environment
    envConfig,      \* config.Env and config.EnvTunneling
    environ,        \* os.Environ() of the process
    manifest,       \* what the last call of BuildWSLENV(config.Env) returned
    prepared,       \* what the last call of PrepareEnv(config) returned
    inferred,       \* a call of inferWSLEnvFlag: its inputs and its result
    \* --- package bridge: encoding
    stream,         \* the bytes of the reader given to newAutoDetectReader
    auto,           \* the reader newAutoDetectReader returned: its kind, the
                    \* peeked bytes not read yet, the bytes taken from the
                    \* underlying reader, the bytes it has passed on
    decoding,       \* a call of NewDecodingReader: the name and the result
    \* --- package wsl: detection
    procVersion,    \* what procVersionReader returns: content or an error
    wslDetectOnce,  \* wslDetectOnce: "fresh", "running" (detect is being
                    \* executed inside Do) or "done"
    wslDetected,    \* wslDetected
    wslVersion,     \* wslVersion
    readerCalls,    \* calls of procVersionReader since the process started
                    \* or resetDetection ran
    dc              \* caller -> its call of IsWSL or DetectWSLVersion:
                    \*           position, function, content read, result

poolVars == <<concurrency, startOnce, jobs, jobsClosed, sendq, results,
              resultsClosed, ctxDone, wg, wpc, wcur, wres, wctx, wlate,
              closers, shutdownPc, consumerPc, panicReason, nSubmitted,
              accepted, lateIssued, pushed, delivered, finished>>

onceVars == <<wslCheckOnce, wslCheckErr, probes>>

pathVars == <<pathCache, mountTableOnce, mountTable, procMounts, tr, lookups,
              native>>

envVars == <<envConfig, environ, manifest, prepared, inferred>>

encVars == <<stream, auto, decoding>>

detVars == <<procVersion, wslDetectOnce, wslDetected, wslVersion,
             readerCalls, dc>>

utilVars == <<pathVars, envVars, encVars, detVars>>

bridgeVars == <<onceVars, ex, utilVars>>

vars == <<poolVars, bridgeVars>>

\* ------------------------------------------------------------------ helpers
NoResult == [cfg |-> 0, out |-> "", err |-> "nil"]

NoCtx == [scope |-> "none", lateStart |-> FALSE]

\* The errors a Result carries.
ErrCanceled == "context canceled"
ErrExec == "executor error"

Workers == 1..Len(wpc)

Executing == {w \in Workers : wpc[w] = "exec"}

InFlight == {w \in Workers : wpc[w] \in {"select", "call", "exec", "send"}}

\* Workers parked in the receive of "for config := range p.jobs".  Parked
\* workers hold no state of their own, so which of them the runtime wakes is
\* immaterial: the first one is taken.
Parked == {w \in Workers : wpc[w] = "recv"}

FirstParked(w) == w \in Parked /\ \A v \in Parked : w <= v

Crashed == panicReason /= "none"

\* ------------------------------------------------------------------ NewPool
\* concurrency <= 0 defaults to runtime.NumCPU().
\* (mutant) NewPool keeps the requested concurrency as given.
NewPoolAsGiven(c) == c

NewPoolConcurrency(c) == IF c <= 0 THEN NumCPU ELSE c

\* Capacity of p.jobs and of p.results.
Cap == concurrency * 2

\* (mutant) the executor is handed a fresh background scope.
BackgroundCtx == "background"

\* The scope Pool.worker hands to the executor.
ExecutorCtx == "pool"

\* Whether a scope is cancelled: the pool's scope follows Cancel, the
\* background scope never is.
ScopeDone(scope) == scope = "pool" /\ ctxDone

PoolInit(requested) ==
    /\ \E c \in requested : concurrency = NewPoolConcurrency(c)
    /\ startOnce = FALSE
    /\ jobs = <<>>
    /\ jobsClosed = FALSE
    /\ sendq = <<>>
    /\ results = <<>>
    /\ resultsClosed = FALSE
    /\ ctxDone = FALSE
    /\ wg = 0
    /\ wpc = <<>>
    /\ wcur = <<>>
    /\ wres = <<>>
    /\ wctx = <<>>
    /\ wlate = <<>>
    /\ closers = 0
    /\ shutdownPc = "idle"
    /\ consumerPc = "idle"
    /\ panicReason = "none"
    /\ nSubmitted = 0
    /\ accepted = {}
    /\ lateIssued = {}
    /\ pushed = <<>>
    /\ delivered = <<>>
    /\ finished = <<>>

\* ------------------------------------------------------------------ bridge
\* Text is a sequence of characters; the child writes ordinary characters
\* and newlines.
Chars == {"x", "\n"}

\* bufio.MaxScanTokenSize, the longest token (line and its newline) the
\* buffer of a bufio.Scanner holds, scaled from 64 KiB to just above the
\* outputs of the invocations whose lines are all short.
MaxScanTokenSize == MaxOut + 1

\* What a pipe holds of the child's output before a write blocks (64 KiB as
\* well), in the same scale.
PipeCapacity == MaxScanTokenSize

\* Output of the child whose lines may be long: enough to fill the buffer
\* of a scanner and the pipe behind it.
MaxLong == MaxScanTokenSize + PipeCapacity + 1

\* Output{}: the zero value.
ZeroOutput == [Stdout |-> <<>>, Stderr |-> <<>>, ExitCode |-> 0, Duration |-> 0]

\* The errors Execute returns.
ErrNotWSL == "gowinbridge: not running in a WSL environment"
ErrPathConversion == "path conversion failed"
ErrDecoder == "failed to create stdout decoder"
ErrStart == "failed to start command"
ErrExecFailed == "command execution failed"

\* The Execute invocations of one process.
Calls == 1..MaxCalls

\* config.Args the invocations are given; an argument is a sequence of
\* tokens, as a path is.  No argument; an empty argument before a relative
\* path; a file name before an absolute path.
ArgLists ==
    {<<>>,
     << <<>>, <<".", "/", "x">> >>,
     << <<"a.txt">>, <<"/", "c">> >>}

\* CommandConfig, as far as Execute's control flow reads it: Timeout is 0 or
\* positive; Encoding is empty, a recognized decoder, auto, or unrecognized.
ExecConfigs ==
    [Timeout : {0, 1}, ConvertPaths : BOOLEAN, Args : ArgLists,
     Encoding : {"", "cp1252", "auto", "bogus"},
     Stdin : BOOLEAN, Interactive : BOOLEAN]

\* The host: whether /proc/version says WSL, whether the binary can be
\* started.
Hosts == [isWSL : BOOLEAN, launch : {"ok", "fail"}]

DefaultConfig ==
    [Timeout |-> 0, ConvertPaths |-> FALSE, Args |-> <<>>, Encoding |-> "",
     Stdin |-> FALSE, Interactive |-> FALSE]

DefaultHost == [isWSL |-> TRUE, launch |-> "ok"]

\* An invocation that has not been made yet.
ExecIdle(config, host) ==
    [pc |-> "idle", config |-> config, host |-> host,
     args |-> config.Args,   \* the arguments of cmd
     callerDone |-> FALSE,   \* the caller's ctx is cancelled
     deadline |-> "none",    \* context.WithTimeout: none | armed | fired | stopped
     child |-> "none",       \* none | running | exited | killed
     status |-> 0,           \* exit status of the child
     watchErr |-> FALSE,     \* the watcher of execCtx recorded ctx.Err()
     pipeOut |-> <<>>,       \* what the child wrote to stdout
     pipeErr |-> <<>>,       \* what the child wrote to stderr
     rdOut |-> 0,            \* characters the stdout scanner has consumed
     rdErr |-> 0,            \* characters the stderr scanner has consumed
     stdoutBuf |-> <<>>,
     stderrBuf |-> <<>>,
     readers |-> {},         \* reader goroutines that have not called wg.Done
     stdinCopier |-> "none", \* none | copying | done
     ret |-> [out |-> ZeroOutput, err |-> "nil"]]

\* An invocation the process never makes.
NotCalled == [ExecIdle(DefaultConfig, DefaultHost) EXCEPT !.pc = "unused"]

\* A process that makes no invocation of Execute at all.
NoInvocations == <<>>

\* ------------------------------------------------------- package wsl: paths
\* A path is a sequence of tokens: the separators "/" and "\", ":" and
\* names.  Two names are adjacent only where the code concatenates strings
\* without a separator.
Sep == "/"
BSep == "\\"

\* The tokens of a native path: the separator, the dot names and plain
\* names, among them those of the mount point /mnt/c.
PathTokens == {Sep, ".", "..", "a", "mnt", "c"}

\* Native paths of n tokens in which every name is delimited by separators.
RECURSIVE PathsOfLen(_)
PathsOfLen(n) ==
    IF n = 1 THEN {<<t>> : t \in PathTokens}
    ELSE UNION {{Append(p, t) : t \in {u \in PathTokens :
                                          u = Sep \/ p[n - 1] = Sep}} :
                p \in PathsOfLen(n - 1)}

\* The non-empty native paths of up to MaxPath tokens.
NativePaths == UNION {PathsOfLen(n) : n \in 1..MaxPath}

\* strings.Split(s, sep) for a one-token separator.
RECURSIVE Split(_, _)
Split(s, sep) ==
    IF s = <<>> THEN << <<>> >>
    ELSE LET rest == Split(Tail(s), sep)
         IN  IF Head(s) = sep THEN << <<>> >> \o rest
             ELSE << <<Head(s)>> \o Head(rest) >> \o Tail(rest)

\* strings.Join(parts, sep).
RECURSIVE Join(_, _)
Join(parts, sep) ==
    IF parts = <<>> THEN <<>>
    ELSE IF Len(parts) = 1 THEN Head(parts)
    ELSE Head(parts) \o <<sep>> \o Join(Tail(parts), sep)

\* strings.ReplaceAll(s, old, repl) for one-token old and repl.
ReplaceAll(s, old, repl) ==
    [i \in 1..Len(s) |-> IF s[i] = old THEN repl ELSE s[i]]

\* strings.HasPrefix(s, prefix) and strings.TrimPrefix(s, prefix).
HasPrefix(s, prefix) ==
    Len(s) >= Len(prefix) /\ SubSeq(s, 1, Len(prefix)) = prefix

TrimPrefix(s, prefix) ==
    IF HasPrefix(s, prefix) THEN SubSeq(s, Len(prefix) + 1, Len(s)) ELSE s

\* strings.Index(s, t) for a one-token t, counted from 1; 0 when absent.
Index(s, t) ==
    IF \E i \in 1..Len(s) : s[i] = t
    THEN CHOOSE i \in 1..Len(s) : s[i] = t /\ \A j \in 1..(i - 1) : s[j] /= t
    ELSE 0

\* The loop of filepath.Clean over the elements of the path: empty and "."
\* elements are dropped, ".." removes the element before it, is dropped at
\* the root and is kept at the front of a relative path.
RECURSIVE cleanElements(_, _, _)
cleanElements(parts, out, rooted) ==
    IF parts = <<>> THEN out
    ELSE LET e == Head(parts)
         IN  IF e = <<>> \/ e = <<".">>
             THEN cleanElements(Tail(parts), out, rooted)
             ELSE IF e = <<"..">>
             THEN IF out /= <<>> /\ out[Len(out)] /= <<"..">>
                  THEN cleanElements(Tail(parts),
                                     SubSeq(out, 1, Len(out) - 1), rooted)
                  ELSE IF rooted
                  THEN cleanElements(Tail(parts), out, rooted)
                  ELSE cleanElements(Tail(parts), Append(out, e), rooted)
             ELSE cleanElements(Tail(parts), Append(out, e), rooted)

\* filepath.Clean(path).
Clean(path) ==
    IF path = <<>> THEN <<".">>
    ELSE LET rooted == Head(path) = Sep
             out == Join(cleanElements(Split(path, Sep), <<>>, rooted), Sep)
         IN  IF rooted THEN <<Sep>> \o out
             ELSE IF out = <<>> THEN <<".">>
             ELSE out

\* The letters, with strings.ToUpper and strings.ToLower on a character.
UpperCase == <<"A", "B", "C", "D", "E", "F", "G", "H", "I", "J", "K", "L", "M",
               "N", "O", "P", "Q", "R", "S", "T", "U", "V", "W", "X", "Y", "Z">>
LowerCase == <<"a", "b", "c", "d", "e", "f", "g", "h", "i", "j", "k", "l", "m",
               "n", "o", "p", "q", "r", "s", "t", "u", "v", "w", "x", "y", "z">>
UpperSet == {UpperCase[i] : i \in 1..Len(UpperCase)}
LowerSet == {LowerCase[i] : i \in 1..Len(LowerCase)}
Letters == UpperSet \cup LowerSet
LetterIndex(alphabet, l) == CHOOSE i \in 1..Len(alphabet) : alphabet[i] = l
ToUpper(l) ==
    IF l \in LowerSet THEN UpperCase[LetterIndex(LowerCase, l)] ELSE l
ToLower(l) ==
    IF l \in UpperSet THEN LowerCase[LetterIndex(UpperCase, l)] ELSE l

\* /proc/mounts of the host: unreadable, or with drive c mounted on /mnt/c.
ProcMounts ==
    {[readable |-> FALSE, drives |-> <<>>],
     [readable |-> TRUE, drives |-> <<"c">>]}

\* parseMountTable(content): one entry for every /mnt/<letter> mount.
parseMountTable(content) ==
    [i \in 1..Len(content.drives) |->
        [DriveLetter |-> ToUpper(content.drives[i]),
         MountPoint |-> <<Sep, "mnt", Sep, content.drives[i]>>]]

\* What mountTableOnce.Do leaves in mountTable: nil after a read error.
readMountTable(content) ==
    IF content.readable THEN parseMountTable(content) ELSE <<>>

\* getDistroName(): WSL_DISTRO_NAME is not set.
getDistroName == "Ubuntu"

\* `\\wsl.localhost\` and `\\wsl$\`
UNCLocalhost == <<BSep, BSep, "wsl.localhost", BSep>>
UNCDollar == <<BSep, BSep, "wsl$", BSep>>

\* The loop of toWindowsPathInternal over the mounts from entry i on, and
\* the UNC path it falls back to.
RECURSIVE toWindowsPathFrom(_, _, _)
toWindowsPathFrom(mounts, i, linuxPath) ==
    IF i > Len(mounts)
    THEN UNCLocalhost \o <<getDistroName>> \o ReplaceAll(linuxPath, Sep, BSep)
    ELSE LET m == mounts[i]
             prefix == m.MountPoint \o <<Sep>>
         IN  IF linuxPath = m.MountPoint
             THEN <<m.DriveLetter, ":", BSep>>
             ELSE IF HasPrefix(linuxPath, prefix)
             THEN <<m.DriveLetter, ":", BSep>>
                     \o ReplaceAll(TrimPrefix(linuxPath, prefix), Sep, BSep)
             ELSE toWindowsPathFrom(mounts, i + 1, linuxPath)

\* toWindowsPathInternal(linuxPath), with getMountTable() returning mounts.
toWindowsPathInternal(mounts, linuxPath) ==
    toWindowsPathFrom(mounts, 1, linuxPath)

ErrEmptyPath == "empty path provided"
ErrUnrecognized == "unrecognized Windows path format"

\* toLinuxPathInternal(windowsPath).
toLinuxPathInternal(windowsPath) ==
    IF HasPrefix(windowsPath, UNCLocalhost) \/ HasPrefix(windowsPath, UNCDollar)
    THEN LET rest == IF HasPrefix(windowsPath, UNCLocalhost)
                     THEN TrimPrefix(windowsPath, UNCLocalhost)
                     ELSE TrimPrefix(windowsPath, UNCDollar)
             idx == Index(rest, BSep)
         IN  IF idx >= 1
             THEN [path |-> Clean(ReplaceAll(SubSeq(rest, idx, Len(rest)),
                                             BSep, Sep)),
                   err |-> "nil"]
             ELSE [path |-> <<Sep>>, err |-> "nil"]
    ELSE IF Len(windowsPath) >= 2 /\ windowsPath[2] = ":"
            /\ windowsPath[1] \in Letters
    THEN LET driveLetter == ToLower(windowsPath[1])
             tail == SubSeq(windowsPath, 3, Len(windowsPath))
             rest == ReplaceAll(TrimPrefix(tail, <<BSep>>), BSep, Sep)
         IN  IF rest = <<>>
             THEN [path |-> <<Sep, "mnt", Sep, driveLetter>>, err |-> "nil"]
             ELSE [path |-> Clean(<<Sep, "mnt", Sep, driveLetter, Sep>> \o rest),
                   err |-> "nil"]
    ELSE [path |-> <<>>, err |-> ErrUnrecognized]

\* (mutant) cacheKey without the direction.
cacheKeyOfPath(direction, path) == <<":">> \o path

\* cacheKey(direction, path): direction + ":" + path
cacheKey(direction, path) == <<direction, ":">> \o path

\* A translation call that has not been made.
NoTranslation ==
    [pc |-> "idle", dir |-> "none", path |-> <<>>, result |-> <<>>,
     err |-> "nil"]

\* A process in which no goroutine calls the path translator.
NoCallers == <<>>

\* The empty cache.
EmptyCache == [k \in {} |-> <<>>]

\* No lookup counted.
NoLookups == [k \in {} |-> 0]

\* The path translator before its first call, on a host with drive c.
PathIdle ==
    /\ pathCache = EmptyCache
    /\ mountTableOnce = FALSE
    /\ mountTable = <<>>
    /\ procMounts = [readable |-> TRUE, drives |-> <<"c">>]
    /\ tr = NoCallers
    /\ lookups = NoLookups
    /\ native = <<>>

\* looksLikePath(s): s is not empty and starts with "/", "./" or "../".
looksLikePath(s) ==
    /\ s /= <<>>
    /\ \/ HasPrefix(s, <<Sep>>)
       \/ HasPrefix(s, <<".", Sep>>)
       \/ HasPrefix(s, <<"..", Sep>>)

\* wsl.ToWindowsPath(linuxPath) as Execute sees it, on a host with drive c
\* mounted: the empty path is an error; any other path is cleaned and
\* translated (the cache holds what the translation computes).
ToWindowsPath(linuxPath) ==
    IF linuxPath = <<>> THEN [path |-> <<>>, err |-> ErrEmptyPath]
    ELSE [path |-> toWindowsPathInternal(
                       readMountTable([readable |-> TRUE, drives |-> <<"c">>]),
                       Clean(linuxPath)),
          err |-> "nil"]

\* (mutant) convertPathArgs translating every argument that is not empty.
RECURSIVE convertEveryArg(_)
convertEveryArg(args) ==
    IF args = <<>> THEN [args |-> <<>>, err |-> "nil"]
    ELSE LET arg == Head(args)
             t == IF arg /= <<>> THEN ToWindowsPath(arg)
                  ELSE [path |-> arg, err |-> "nil"]
             rest == convertEveryArg(Tail(args))
         IN  [args |-> <<t.path>> \o rest.args, err |-> "nil"]

\* convertPathArgs(args): the arguments with every path-shaped one
\* translated, or nil and the error of the first translation that failed.
RECURSIVE convertPathArgs(_)
convertPathArgs(args) ==
    IF args = <<>> THEN [args |-> <<>>, err |-> "nil"]
    ELSE LET arg == Head(args)
             t == IF looksLikePath(arg) THEN ToWindowsPath(arg)
                  ELSE [path |-> arg, err |-> "nil"]
             rest == convertPathArgs(Tail(args))
         IN  IF t.err /= "nil" THEN [args |-> <<>>, err |-> t.err]
             ELSE IF rest.err /= "nil" THEN rest
             ELSE [args |-> <<t.path>> \o rest.args, err |-> "nil"]

\* The arguments Execute is given where only the arguments matter: the
\* empty string, file names, a name with a directory, a host-style path,
\* relative paths, a path under the drive mount, another absolute path and
\* a switch of cmd.exe.
ArgSamples ==
    {<<>>, <<"a.txt">>, <<".", "x">>, <<"a", Sep, "x">>,
     <<"C", ":", BSep, "Windows">>,
     <<".", Sep, "x">>, <<"..", Sep, "x">>,
     <<Sep, "mnt", Sep, "c", Sep, "x">>, <<Sep, "home", Sep, "x">>,
     <<Sep, "c">>}

\* Argument lists of n arguments.
RECURSIVE ArgsOfLen(_)
ArgsOfLen(n) ==
    IF n = 0 THEN {<<>>}
    ELSE {Append(l, a) : l \in ArgsOfLen(n - 1), a \in ArgSamples}

\* ---------------------------------------------------- package bridge: env
\* Environment names and values are strings of characters.
\* The flags of WSLENV.
WSLEnvFlagTranslatePath == <<"/", "p">>
WSLEnvFlagTranslatePathList == <<"/", "l">>
WSLEnvFlagUnixToWin == <<"/", "u">>

\* pathLikeKeys
pathLikeKeys ==
    {<<"P", "A", "T", "H">>, <<"H", "O", "M", "E">>,
     <<"G", "O", "P", "A", "T", "H">>, <<"G", "O", "R", "O", "O", "T">>,
     <<"T", "M", "P", "D", "I", "R">>, <<"T", "E", "M", "P">>,
     <<"T", "M", "P">>,
     <<"U", "S", "E", "R", "P", "R", "O", "F", "I", "L", "E">>,
     <<"A", "P", "P", "D", "A", "T", "A">>,
     <<"L", "O", "C", "A", "L", "A", "P", "P", "D", "A", "T", "A">>}

\* strings.ToUpper(s)
ToUpperString(s) == [i \in 1..Len(s) |-> ToUpper(s[i])]

\* strings.TrimSpace(s), for the space character.
RECURSIVE TrimSpace(_)
TrimSpace(s) ==
    IF s = <<>> THEN s
    ELSE IF Head(s) = " " THEN TrimSpace(Tail(s))
    ELSE IF s[Len(s)] = " " THEN TrimSpace(SubSeq(s, 1, Len(s) - 1))
    ELSE s

\* The segments of a colon-joined value that look like paths.
pathSegments(segments) ==
    {i \in 1..Len(segments) :
        LET seg == TrimSpace(segments[i])
        IN  HasPrefix(seg, <<"/">>) \/ HasPrefix(seg, <<".", "/">>)}

\* (mutant) inferWSLEnvFlag looking at the name before the value.
inferWSLEnvFlagNameFirst(key, value) ==
    LET segments == Split(value, ":")
        pathCount == Cardinality(pathSegments(segments))
    IN  IF ToUpperString(key) \in pathLikeKeys
        THEN WSLEnvFlagTranslatePath
        ELSE IF /\ Index(value, ":") > 0
                /\ pathCount > 0
                /\ pathCount >= Len(segments) \div 2
        THEN WSLEnvFlagTranslatePathList
        ELSE IF \/ HasPrefix(value, <<"/">>)
                \/ HasPrefix(value, <<".", "/">>)
                \/ HasPrefix(value, <<".", ".", "/">>)
        THEN WSLEnvFlagTranslatePath
        ELSE WSLEnvFlagUnixToWin

\* inferWSLEnvFlag(key, value)
inferWSLEnvFlag(key, value) ==
    LET segments == Split(value, ":")
        pathCount == Cardinality(pathSegments(segments))
    IN  IF /\ Index(value, ":") > 0
           /\ pathCount > 0
           /\ pathCount >= Len(segments) \div 2
        THEN WSLEnvFlagTranslatePathList
        ELSE IF \/ HasPrefix(value, <<"/">>)
                \/ HasPrefix(value, <<".", "/">>)
                \/ HasPrefix(value, <<".", ".", "/">>)
        THEN WSLEnvFlagTranslatePath
        ELSE IF ToUpperString(key) \in pathLikeKeys
        THEN WSLEnvFlagTranslatePath
        ELSE WSLEnvFlagUnixToWin

\* The byte of a character: sort.Strings compares strings byte by byte.
ByteOf(ch) ==
    IF ch \in UpperSet THEN 64 + LetterIndex(UpperCase, ch)
    ELSE IF ch \in LowerSet THEN 96 + LetterIndex(LowerCase, ch)
    ELSE IF ch = " " THEN 32
    ELSE IF ch = "." THEN 46
    ELSE IF ch = "/" THEN 47
    ELSE IF ch = ":" THEN 58
    ELSE 61

\* a < b for strings.
RECURSIVE Less(_, _)
Less(a, b) ==
    IF b = <<>> THEN FALSE
    ELSE IF a = <<>> THEN TRUE
    ELSE IF Head(a) /= Head(b) THEN ByteOf(Head(a)) < ByteOf(Head(b))
    ELSE Less(Tail(a), Tail(b))

\* sort.Strings(keys)
RECURSIVE SortStrings(_)
SortStrings(keys) ==
    IF keys = <<>> THEN <<>>
    ELSE LET sorted == SortStrings(Tail(keys))
             k == Head(keys)
             before == SelectSeq(sorted, LAMBDA x : Less(x, k))
             after == SelectSeq(sorted, LAMBDA x : ~Less(x, k))
         IN  before \o <<k>> \o after

\* The orders in which `range` may iterate over a map with these keys.
Orders(keys) ==
    {o \in [1..Cardinality(keys) -> keys] :
        \A i, j \in 1..Cardinality(keys) : o[i] = o[j] => i = j}

\* (mutant) BuildWSLENV without sort.Strings.
BuildWSLENVUnsorted(overlay, order) ==
    IF DOMAIN overlay = {} THEN <<>>
    ELSE Join([i \in 1..Len(order) |->
                  order[i] \o inferWSLEnvFlag(order[i], overlay[order[i]])],
              ":")

\* BuildWSLENV(overlay), the map being iterated in the given order.
BuildWSLENV(overlay, order) ==
    IF DOMAIN overlay = {} THEN <<>>
    ELSE LET keys == SortStrings(order)
         IN  Join([i \in 1..Len(keys) |->
                      keys[i] \o inferWSLEnvFlag(keys[i], overlay[keys[i]])],
                  ":")

\* "WSLENV="
WSLENVPrefix == <<"W", "S", "L", "E", "N", "V", "=">>

\* fmt.Sprintf("%s=%s", k, v)
EnvEntry(k, v) == k \o <<"=">> \o v

\* The index of the first entry with the prefix "WSLENV=", 0 if none.
existingIdx(env) ==
    IF \E i \in 1..Len(env) : HasPrefix(env[i], WSLENVPrefix)
    THEN CHOOSE i \in 1..Len(env) :
            /\ HasPrefix(env[i], WSLENVPrefix)
            /\ \A j \in 1..(i - 1) : ~HasPrefix(env[j], WSLENVPrefix)
    ELSE 0

\* PrepareEnv's result when it returns nil: os.Environ() was not called.
InheritEnv == [isNil |-> TRUE, env |-> <<>>, environRead |-> FALSE]

\* (mutant) PrepareEnv returning nil whenever the overlay is empty.
PrepareEnvNilOnEmpty(config, snapshot, order, wslenvOrder) ==
    IF DOMAIN config.Env = {} THEN InheritEnv
    ELSE LET added == snapshot \o
                 [i \in 1..Len(order) |->
                     EnvEntry(order[i], config.Env[order[i]])]
         IN  [isNil |-> FALSE, env |-> added, environRead |-> TRUE]

\* PrepareEnv(config), with os.Environ() returning snapshot and the two
\* iterations over config.Env, PrepareEnv's and BuildWSLENV's, going in
\* the given orders.
PrepareEnv(config, snapshot, order, wslenvOrder) ==
    IF DOMAIN config.Env = {} /\ ~config.EnvTunneling THEN InheritEnv
    ELSE LET added == snapshot \o
                 [i \in 1..Len(order) |->
                     EnvEntry(order[i], config.Env[order[i]])]
             tokens == BuildWSLENV(config.Env, wslenvOrder)
             idx == existingIdx(added)
             existing == TrimPrefix(added[idx], WSLENVPrefix)
             wslenv == IF idx > 0 /\ existing /= <<>>
                       THEN existing \o <<":">> \o tokens
                       ELSE tokens
             env == IF ~(config.EnvTunneling /\ DOMAIN config.Env /= {})
                    THEN added
                    ELSE IF idx > 0
                    THEN [added EXCEPT ![idx] = WSLENVPrefix \o wslenv]
                    ELSE Append(added, WSLENVPrefix \o wslenv)
         IN  [isNil |-> FALSE, env |-> env, environRead |-> TRUE]

\* Names of overlay variables: two that sort.Strings orders by case, and
\* WSLENV itself.
EnvKeys == {<<"a">>, <<"B">>, <<"W", "S", "L", "E", "N", "V">>}

\* Values of overlay variables: plain, a path, a list of paths.
EnvValues == {<<"x">>, <<"/", "x">>, <<"/", ":", "/">>}

\* config.Env
OverlayMaps == UNION {[keys -> EnvValues] : keys \in SUBSET EnvKeys}

\* os.Environ(): empty; without WSLENV; with a WSLENV between other
\* entries; with an empty WSLENV.
Environs ==
    {<<>>,
     << <<"U", "=", "x">> >>,
     << <<"U", "=", "x">>, WSLENVPrefix \o <<"U", "/", "u">>,
        <<"V", "=", "x">> >>,
     << WSLENVPrefix, <<"U", "=", "x">> >>}

\* No call of BuildWSLENV, PrepareEnv or inferWSLEnvFlag made.
NotBuilt == [called |-> FALSE, out |-> <<>>]
NotPrepared == [called |-> FALSE, isNil |-> FALSE, env |-> <<>>,
                environRead |-> FALSE]
NotInferred == [called |-> FALSE, key |-> <<>>, value |-> <<>>, flag |-> <<>>]

EnvIdle ==
    /\ envConfig = [Env |-> [k \in {} |-> <<>>], EnvTunneling |-> FALSE]
    /\ environ = <<>>
    /\ manifest = NotBuilt
    /\ prepared = NotPrepared
    /\ inferred = NotInferred

\* ----------------------------------------------- package bridge: encoding
\* Encoding names are strings of characters.
EncodingUTF8 == <<"u", "t", "f", "8">>
EncodingCP1252 == <<"c", "p", "1", "2", "5", "2">>
EncodingUTF16LE == <<"u", "t", "f", "1", "6", "l", "e">>
EncodingUTF16BE == <<"u", "t", "f", "1", "6", "b", "e">>
EncodingAuto == <<"a", "u", "t", "o">>

\* strings.ToLower(s)
ToLowerString(s) == [i \in 1..Len(s) |-> ToLower(s[i])]

ErrUnsupported ==
    "unsupported encoding (supported: utf8, cp1252, utf16le, utf16be, auto)"

\* resolveEncoding(name): the encoding, "nil" for passthrough, and the error.
resolveEncoding(name) ==
    LET n == ToLowerString(TrimSpace(name))
    IN  IF n \in {EncodingUTF8, <<"u", "t", "f", "-", "8">>, <<>>}
        THEN [enc |-> "nil", err |-> "nil"]
        ELSE IF n \in {EncodingCP1252,
                       <<"w", "i", "n", "d", "o", "w", "s", "-",
                         "1", "2", "5", "2">>,
                       <<"l", "a", "t", "i", "n", "1">>,
                       <<"i", "s", "o", "-", "8", "8", "5", "9", "-", "1">>}
        THEN [enc |-> "Windows1252", err |-> "nil"]
        ELSE IF n \in {EncodingUTF16LE,
                       <<"u", "t", "f", "-", "1", "6", "l", "e">>}
        THEN [enc |-> "UTF16LE", err |-> "nil"]
        ELSE IF n \in {EncodingUTF16BE,
                       <<"u", "t", "f", "-", "1", "6", "b", "e">>}
        THEN [enc |-> "UTF16BE", err |-> "nil"]
        ELSE [enc |-> "nil", err |-> ErrUnsupported]

\* NewDecodingReader(r, enc): the reader returned -- r itself, the
\* auto-detecting reader, a decoder of an encoding, or nil -- and the error.
NewDecodingReader(enc) ==
    IF enc = <<>> \/ ToLowerString(enc) = EncodingUTF8
    THEN [reader |-> "r", err |-> "nil"]
    ELSE IF ToLowerString(enc) = EncodingAuto
    THEN [reader |-> "auto", err |-> "nil"]
    ELSE LET e == resolveEncoding(enc)
         IN  IF e.err /= "nil" THEN [reader |-> "nil", err |-> e.err]
             ELSE IF e.enc = "nil" THEN [reader |-> "r", err |-> "nil"]
             ELSE [reader |-> e.enc, err |-> "nil"]

\* The selector names the package documents, and one it does not know.
KnownNames ==
    {<<>>, EncodingUTF8, <<"u", "t", "f", "-", "8">>, EncodingCP1252,
     <<"w", "i", "n", "d", "o", "w", "s", "-", "1", "2", "5", "2">>,
     <<"l", "a", "t", "i", "n", "1">>,
     <<"i", "s", "o", "-", "8", "8", "5", "9", "-", "1">>,
     EncodingUTF16LE, <<"u", "t", "f", "-", "1", "6", "l", "e">>,
     EncodingUTF16BE, <<"u", "t", "f", "-", "1", "6", "b", "e">>,
     EncodingAuto}

UnknownNames == {<<"e", "b", "c", "d", "i", "c">>}

\* A name as written, in upper case, and with its first letter in upper
\* case.
CaseVariants(name) ==
    {name, ToUpperString(name),
     [i \in 1..Len(name) |-> IF i = 1 THEN ToUpper(name[i]) ELSE name[i]]}

\* A name with and without a space before and after it.
SpaceVariants(name) ==
    {name, <<" ">> \o name, name \o <<" ">>, <<" ">> \o name \o <<" ">>}

\* The selector names NewDecodingReader is given.
EncodingNames ==
    UNION {SpaceVariants(v) :
              v \in UNION {CaseVariants(n) : n \in KnownNames \cup UnknownNames}}

\* The bytes of the byte order marks, which also serve as ordinary bytes.
StreamBytes == {"FF", "FE", "EF", "BB", "BF"}

\* Byte streams of n bytes.
RECURSIVE StreamsOfLen(_)
StreamsOfLen(n) ==
    IF n = 0 THEN {<<>>}
    ELSE {Append(s, b) : s \in StreamsOfLen(n - 1), b \in StreamBytes}

\* The byte streams of up to MaxStream bytes.
Streams == UNION {StreamsOfLen(n) : n \in 0..MaxStream}

\* A nil encoding.Encoding: the bytes are passed through.
NoEncoding == [endian |-> "none", bom |-> "none"]

\* detectBOMEncoding(data): the UTF-16 encoding of the mark, or nil.
detectBOMEncoding(data) ==
    IF Len(data) >= 2 /\ data[1] = "FF" /\ data[2] = "FE"
    THEN [endian |-> "LE", bom |-> "UseBOM"]
    ELSE IF Len(data) >= 2 /\ data[1] = "FE" /\ data[2] = "FF"
    THEN [endian |-> "BE", bom |-> "UseBOM"]
    ELSE NoEncoding

\* The characters of UTF-16 code units: a unit is written high byte first,
\* and a byte left over decodes to the replacement character.
RECURSIVE decodeUnits(_, _)
decodeUnits(endian, data) ==
    IF data = <<>> THEN <<>>
    ELSE IF Len(data) = 1 THEN << <<"FF", "FD">> >>
    ELSE << IF endian = "LE" THEN <<data[2], data[1]>>
            ELSE <<data[1], data[2]>> >>
            \o decodeUnits(endian, SubSeq(data, 3, Len(data)))

\* What unicode.UTF16(endian, UseBOM).NewDecoder() makes of its input: a
\* byte order mark at the front selects the byte order and is dropped.
UTF16Decode(e, data) ==
    IF e.bom = "UseBOM" /\ Len(data) >= 2 /\ data[1] = "FF" /\ data[2] = "FE"
    THEN decodeUnits("LE", SubSeq(data, 3, Len(data)))
    ELSE IF e.bom = "UseBOM" /\ Len(data) >= 2
            /\ data[1] = "FE" /\ data[2] = "FF"
    THEN decodeUnits("BE", SubSeq(data, 3, Len(data)))
    ELSE decodeUnits(e.endian, data)

\* The numbers of bytes io.ReadAtLeast(r, buf, 2) may leave in the 4-byte
\* buf: all of a stream shorter than 2, otherwise 2 to 4 as the reads fall.
PeekCounts(data) ==
    IF Len(data) < 2 THEN {Len(data)}
    ELSE {n \in 2..4 : n <= Len(data)}

\* No reader made.
NoReader ==
    [kind |-> "none", enc |-> NoEncoding, peek |-> <<>>, rpos |-> 0,
     got |-> <<>>, eof |-> FALSE]

NotDecoding ==
    [called |-> FALSE, name |-> <<>>, reader |-> "nil", err |-> "nil"]

EncIdle ==
    /\ stream = <<>>
    /\ auto = NoReader
    /\ decoding = NotDecoding

\* ------------------------------------------------------ detection (data)
\* WSL version constants.
WSLVersionNone == 0
WSLVersion1 == 1
WSLVersion2 == 2

\* strings.Contains(s, substr)
Contains(s, substr) ==
    \E i \in 1..(Len(s) - Len(substr) + 1) :
        SubSeq(s, i, i + Len(substr) - 1) = substr

\* The words detect looks for, and words of other kernels.
WordMicrosoft == <<"m", "i", "c", "r", "o", "s", "o", "f", "t">>
WordStandardWSL == <<"-", "s", "t", "a", "n", "d", "a", "r", "d", "-",
                     "w", "s", "l">>
WordAmd64 == <<"6", "-", "a", "m", "d", "6", "4">>

\* strings.ToUpper(s) on the first character only: "Microsoft".
Capitalized(s) == <<ToUpper(Head(s))>> \o Tail(s)

\* What procVersionReader can return: a read error, or the content of
\* /proc/version of a WSL2 kernel (in the kernel's spelling, in capitals
\* without the 2), a WSL1 kernel, a native kernel and an empty file.
ProcVersions ==
    {[err |-> TRUE, content |-> <<>>]} \cup
    {[err |-> FALSE, content |-> c] :
        c \in {<<"5", "-">> \o WordMicrosoft \o
                   SubSeq(WordStandardWSL, 1, 10) \o <<"W", "S", "L", "2">>,
               ToUpperString(WordMicrosoft \o WordStandardWSL),
               <<"4", "-">> \o Capitalized(WordMicrosoft),
               WordMicrosoft \o SubSeq(WordStandardWSL, 1, 9),
               WordAmd64,
               <<>>}}

\* detect(), the values it assigns to wslDetected and wslVersion for what
\* procVersionReader returned.
detect(read) ==
    LET lower == ToLowerString(read.content)
    IN  IF read.err
        THEN [wslDetected |-> FALSE, wslVersion |-> WSLVersionNone]
        ELSE IF ~Contains(lower, WordMicrosoft)
        THEN [wslDetected |-> FALSE, wslVersion |-> WSLVersionNone]
        ELSE IF \/ Contains(lower, WordMicrosoft \o WordStandardWSL \o <<"2">>)
                \/ Contains(lower, WordMicrosoft \o WordStandardWSL)
        THEN [wslDetected |-> TRUE, wslVersion |-> WSLVersion2]
        ELSE [wslDetected |-> TRUE, wslVersion |-> WSLVersion1]

\* A caller that has not called IsWSL or DetectWSLVersion.
NoDetection == [pc |-> "idle", fn |-> "none", ret |-> 0]

\* A process that never asks whether it runs under WSL.
DetIdle ==
    /\ procVersion = [err |-> TRUE, content |-> <<>>]
    /\ wslDetectOnce = "fresh"
    /\ wslDetected = FALSE
    /\ wslVersion = WSLVersionNone
    /\ readerCalls = 0
    /\ dc = NoCallers

UtilIdle == PathIdle /\ EnvIdle /\ EncIdle /\ DetIdle

Init ==
    /\ PoolInit(0..MaxN)
    /\ wslCheckOnce = FALSE
    /\ wslCheckErr = "nil"
    /\ probes = 0
    /\ ex = NoInvocations
    /\ UtilIdle

\* ------------------------------------------------------------------ start
\* Pool.start: p.concurrency workers, wg.Add(1) for each, and the closer.
start ==
    /\ wpc' = wpc \o [i \in 1..concurrency |-> "recv"]
    /\ wcur' = wcur \o [i \in 1..concurrency |-> 0]
    /\ wres' = wres \o [i \in 1..concurrency |-> NoResult]
    /\ wctx' = wctx \o [i \in 1..concurrency |-> NoCtx]
    /\ wlate' = wlate \o [i \in 1..concurrency |-> FALSE]
    /\ wg' = wg + concurrency
    /\ closers' = closers + 1

\* (mutant) start runs on every call instead of once.
StartEveryCall == startOnce' = TRUE /\ start

\* p.startOnce.Do(p.start)
StartOnceDo ==
    IF startOnce
    THEN UNCHANGED <<startOnce, wpc, wcur, wres, wctx, wlate, wg, closers>>
    ELSE startOnce' = TRUE /\ start

\* ------------------------------------------------------------------ Submit
\* (mutant) a job queue without a bound: the send never parks the caller.
SendJobUnbounded(j) ==
    IF jobsClosed
    THEN /\ panicReason' = "send on closed channel: jobs"
         /\ UNCHANGED <<jobs, sendq, accepted>>
    ELSE /\ jobs' = Append(jobs, j)
         /\ accepted' = accepted \cup {j}
         /\ UNCHANGED <<sendq, panicReason>>

\* (mutant) Shutdown that only marks the queue: a later send still goes in.
SendJobIgnoringClose(j) ==
    IF Len(jobs) < Cap
    THEN /\ jobs' = Append(jobs, j)
         /\ accepted' = accepted \cup {j}
         /\ UNCHANGED <<sendq, panicReason>>
    ELSE /\ sendq' = Append(sendq, j)
         /\ UNCHANGED <<jobs, accepted, panicReason>>

\* p.jobs <- config: panics on a closed channel, completes while the buffer
\* has room, and parks the caller otherwise.
SendJob(j) ==
    IF jobsClosed
    THEN /\ panicReason' = "send on closed channel: jobs"
         /\ UNCHANGED <<jobs, sendq, accepted>>
    ELSE IF Len(jobs) < Cap
    THEN /\ jobs' = Append(jobs, j)
         /\ accepted' = accepted \cup {j}
         /\ UNCHANGED <<sendq, panicReason>>
    ELSE /\ sendq' = Append(sendq, j)
         /\ UNCHANGED <<jobs, accepted, panicReason>>

Submit ==
    /\ ~Crashed
    /\ nSubmitted < MaxJobs
    /\ nSubmitted' = nSubmitted + 1
    /\ lateIssued' = IF jobsClosed THEN lateIssued \cup {nSubmitted + 1}
                     ELSE lateIssued
    /\ StartOnceDo
    /\ SendJob(nSubmitted + 1)
    /\ UNCHANGED <<concurrency, jobsClosed, results, resultsClosed, ctxDone,
                   shutdownPc, consumerPc, pushed, delivered,
                   finished>>
    /\ UNCHANGED bridgeVars

\* ------------------------------------------------------------------ Results
Results ==
    /\ ~Crashed
    /\ consumerPc = "idle"
    /\ StartOnceDo
    /\ consumerPc' = "ranging"
    /\ UNCHANGED <<concurrency, jobs, jobsClosed, sendq, results,
                   resultsClosed, ctxDone, shutdownPc, panicReason,
                   nSubmitted, accepted, lateIssued, pushed, delivered,
                   finished>>
    /\ UNCHANGED bridgeVars

\* for r := range pool.Results(): one receive.
ConsumerRecv ==
    /\ ~Crashed
    /\ consumerPc = "ranging"
    /\ results /= <<>>
    /\ delivered' = Append(delivered, Head(results))
    /\ results' = Tail(results)
    /\ UNCHANGED <<concurrency, startOnce, jobs, jobsClosed, sendq,
                   resultsClosed, ctxDone, wg, wpc, wcur, wres, wctx, wlate,
                   closers, shutdownPc, consumerPc, panicReason, nSubmitted,
                   accepted, lateIssued, pushed,
                   finished>>
    /\ UNCHANGED bridgeVars

\* The range loop ends on a closed, drained channel.
ConsumerEnd ==
    /\ ~Crashed
    /\ consumerPc = "ranging"
    /\ results = <<>>
    /\ resultsClosed
    /\ consumerPc' = "ended"
    /\ UNCHANGED <<concurrency, startOnce, jobs, jobsClosed, sendq, results,
                   resultsClosed, ctxDone, wg, wpc, wcur, wres, wctx, wlate,
                   closers, shutdownPc, panicReason, nSubmitted, accepted,
                   lateIssued, pushed, delivered,
                   finished>>
    /\ UNCHANGED bridgeVars

\* ------------------------------------------------------------------ worker
\* for config := range p.jobs: one receive.  A receive from a full buffer
\* with a parked sender moves that sender's value into the buffer and lets
\* its Submit return.
WorkerRecv(w) ==
    /\ ~Crashed
    /\ FirstParked(w)
    /\ jobs /= <<>>
    /\ wcur' = [wcur EXCEPT ![w] = Head(jobs)]
    /\ wpc' = [wpc EXCEPT ![w] = "select"]
    /\ IF sendq /= <<>>
       THEN /\ jobs' = Append(Tail(jobs), Head(sendq))
            /\ sendq' = Tail(sendq)
            /\ accepted' = accepted \cup {Head(sendq)}
       ELSE /\ jobs' = Tail(jobs)
            /\ UNCHANGED <<sendq, accepted>>
    /\ wlate' = [wlate EXCEPT ![w] = ctxDone]
    /\ UNCHANGED <<concurrency, startOnce, jobsClosed, results, resultsClosed,
                   ctxDone, wg, wres, wctx, closers, shutdownPc, consumerPc,
                   panicReason, nSubmitted, lateIssued, pushed, delivered,
                   finished>>
    /\ UNCHANGED bridgeVars

\* (mutant) the worker returns without p.wg.Done().
WorkerExitNoDone(w) ==
    /\ ~Crashed
    /\ FirstParked(w)
    /\ jobs = <<>>
    /\ jobsClosed
    /\ wpc' = [wpc EXCEPT ![w] = "exited"]
    /\ UNCHANGED <<concurrency, startOnce, jobs, jobsClosed, sendq, results,
                   resultsClosed, ctxDone, wg, wcur, wres, wctx, wlate,
                   closers, shutdownPc, consumerPc, panicReason, nSubmitted,
                   accepted, lateIssued, pushed, delivered,
                   finished>>
    /\ UNCHANGED bridgeVars

\* The range loop ends on a closed, drained p.jobs; defer p.wg.Done().
WorkerExit(w) ==
    /\ ~Crashed
    /\ FirstParked(w)
    /\ jobs = <<>>
    /\ jobsClosed
    /\ wpc' = [wpc EXCEPT ![w] = "exited"]
    /\ wg' = wg - 1
    /\ UNCHANGED <<concurrency, startOnce, jobs, jobsClosed, sendq, results,
                   resultsClosed, ctxDone, wcur, wres, wctx, wlate, closers,
                   shutdownPc, consumerPc, panicReason, nSubmitted, accepted,
                   lateIssued, pushed, delivered,
                   finished>>
    /\ UNCHANGED bridgeVars

\* (mutant) a cancelled pool skips the pending job without a Result.
WorkerSelectDropping(w) ==
    /\ ~Crashed
    /\ wpc[w] = "select"
    /\ IF ctxDone
       THEN /\ wpc' = [wpc EXCEPT ![w] = "recv"]
            /\ wcur' = [wcur EXCEPT ![w] = 0]
            /\ wlate' = [wlate EXCEPT ![w] = FALSE]
       ELSE /\ wpc' = [wpc EXCEPT ![w] = "call"]
            /\ UNCHANGED <<wcur, wlate>>
    /\ UNCHANGED <<concurrency, startOnce, jobs, jobsClosed, sendq, results,
                   resultsClosed, ctxDone, wg, wres, wctx, closers,
                   shutdownPc, consumerPc, panicReason, nSubmitted, accepted,
                   lateIssued, pushed, delivered,
                   finished>>
    /\ UNCHANGED bridgeVars

\* (mutant) the worker calls the executor without looking at p.ctx.Done().
WorkerSelectNoCheck(w) ==
    /\ ~Crashed
    /\ wpc[w] = "select"
    /\ wpc' = [wpc EXCEPT ![w] = "call"]
    /\ UNCHANGED <<concurrency, startOnce, jobs, jobsClosed, sendq, results,
                   resultsClosed, ctxDone, wg, wcur, wres, wctx, wlate,
                   closers, shutdownPc, consumerPc, panicReason, nSubmitted,
                   accepted, lateIssued, pushed, delivered,
                   finished>>
    /\ UNCHANGED bridgeVars

\* select { case <-p.ctx.Done(): p.results <- Result{config, p.ctx.Err()}
\*          default: ... }
WorkerSelect(w) ==
    /\ ~Crashed
    /\ wpc[w] = "select"
    /\ IF ctxDone
       THEN /\ wres' = [wres EXCEPT ![w] =
                           [cfg |-> wcur[w], out |-> "", err |-> ErrCanceled]]
            /\ wpc' = [wpc EXCEPT ![w] = "send"]
       ELSE /\ wpc' = [wpc EXCEPT ![w] = "call"]
            /\ UNCHANGED wres
    /\ UNCHANGED <<concurrency, startOnce, jobs, jobsClosed, sendq, results,
                   resultsClosed, ctxDone, wg, wcur, wctx, wlate, closers,
                   shutdownPc, consumerPc, panicReason, nSubmitted, accepted,
                   lateIssued, pushed, delivered,
                   finished>>
    /\ UNCHANGED bridgeVars

\* default: output, err := p.executor(p.ctx, config) -- the call is made.
WorkerCall(w) ==
    /\ ~Crashed
    /\ wpc[w] = "call"
    /\ wpc' = [wpc EXCEPT ![w] = "exec"]
    /\ wctx' = [wctx EXCEPT ![w] =
                    [scope |-> ExecutorCtx, lateStart |-> ctxDone]]
    /\ UNCHANGED <<concurrency, startOnce, jobs, jobsClosed, sendq, results,
                   resultsClosed, ctxDone, wg, wcur, wres, wlate, closers,
                   shutdownPc, consumerPc, panicReason, nSubmitted, accepted,
                   lateIssued, pushed, delivered,
                   finished>>
    /\ UNCHANGED bridgeVars

\* The injected executor (mockExecutor / errExecutor of the tests): it fails
\* with its own error on the even configs and returns an Output on the odd
\* ones; once the scope it was handed is cancelled it may instead return the
\* scope's error.
ExecutorOutcomes(config, scope) ==
    {IF config % 2 = 0 THEN [out |-> "", err |-> ErrExec]
                       ELSE [out |-> "output", err |-> "nil"]}
    \cup (IF ScopeDone(scope) THEN {[out |-> "", err |-> ErrCanceled]} ELSE {})

\* The executor returns; the worker builds Result{config, output, err}.
ExecutorReturn(w) ==
    /\ ~Crashed
    /\ wpc[w] = "exec"
    /\ \E o \in ExecutorOutcomes(wcur[w], wctx[w].scope) :
          wres' = [wres EXCEPT ![w] =
                      [cfg |-> wcur[w], out |-> o.out, err |-> o.err]]
    /\ wpc' = [wpc EXCEPT ![w] = "send"]
    /\ wctx' = [wctx EXCEPT ![w] = NoCtx]
    /\ finished' = Append(finished, w)
    /\ UNCHANGED <<concurrency, startOnce, jobs, jobsClosed, sendq, results,
                   resultsClosed, ctxDone, wg, wcur, wlate, closers,
                   shutdownPc, consumerPc, panicReason, nSubmitted, accepted,
                   lateIssued, pushed, delivered>>
    /\ UNCHANGED bridgeVars

\* p.results <- Result{...}: blocks while the buffer is full.
WorkerSend(w) ==
    /\ ~Crashed
    /\ wpc[w] = "send"
    /\ IF resultsClosed
       THEN /\ panicReason' = "send on closed channel: results"
            /\ UNCHANGED <<results, pushed, wpc, wcur, wres, wlate, finished>>
       ELSE /\ Len(results) < Cap
            /\ results' = Append(results, wres[w])
            /\ pushed' = Append(pushed, wres[w])
            /\ wpc' = [wpc EXCEPT ![w] = "recv"]
            /\ wcur' = [wcur EXCEPT ![w] = 0]
            /\ wres' = [wres EXCEPT ![w] = NoResult]
            /\ wlate' = [wlate EXCEPT ![w] = FALSE]
            /\ finished' = SelectSeq(finished, LAMBDA v : v /= w)
            /\ UNCHANGED panicReason
    /\ UNCHANGED <<concurrency, startOnce, jobs, jobsClosed, sendq,
                   resultsClosed, ctxDone, wg, wctx, closers, shutdownPc,
                   consumerPc, nSubmitted, accepted, lateIssued, delivered>>
    /\ UNCHANGED bridgeVars

\* (mutant) the closer closes p.results without p.wg.Wait().
CloserNoWait ==
    /\ ~Crashed
    /\ closers > 0
    /\ closers' = closers - 1
    /\ IF resultsClosed
       THEN panicReason' = "close of closed channel: results"
            /\ UNCHANGED resultsClosed
       ELSE resultsClosed' = TRUE /\ UNCHANGED panicReason
    /\ UNCHANGED <<concurrency, startOnce, jobs, jobsClosed, sendq, results,
                   ctxDone, wg, wpc, wcur, wres, wctx, wlate, shutdownPc,
                   consumerPc, nSubmitted, accepted, lateIssued, pushed,
                   delivered,
                   finished>>
    /\ UNCHANGED bridgeVars

\* go func() { p.wg.Wait(); close(p.results) }()
Closer ==
    /\ ~Crashed
    /\ closers > 0
    /\ wg = 0
    /\ closers' = closers - 1
    /\ IF resultsClosed
       THEN panicReason' = "close of closed channel: results"
            /\ UNCHANGED resultsClosed
       ELSE resultsClosed' = TRUE /\ UNCHANGED panicReason
    /\ UNCHANGED <<concurrency, startOnce, jobs, jobsClosed, sendq, results,
                   ctxDone, wg, wpc, wcur, wres, wctx, wlate, shutdownPc,
                   consumerPc, nSubmitted, accepted, lateIssued, pushed,
                   delivered,
                   finished>>
    /\ UNCHANGED bridgeVars

\* ------------------------------------------------------------------ Shutdown
\* close(p.jobs): panics when already closed; a sender parked on the channel
\* panics when it is closed under it.  Then the caller is in p.wg.Wait().
Shutdown ==
    /\ ~Crashed
    /\ IF jobsClosed
       THEN /\ panicReason' = "close of closed channel: jobs"
            /\ UNCHANGED <<jobsClosed, shutdownPc>>
       ELSE /\ jobsClosed' = TRUE
            /\ IF sendq /= <<>>
               THEN panicReason' = "send on closed channel: jobs"
                    /\ UNCHANGED shutdownPc
               ELSE shutdownPc' = "waiting" /\ UNCHANGED panicReason
    /\ UNCHANGED <<concurrency, startOnce, jobs, sendq, results,
                   resultsClosed, ctxDone, wg, wpc, wcur, wres, wctx, wlate,
                   closers, consumerPc, nSubmitted, accepted, lateIssued,
                   pushed, delivered,
                   finished>>
    /\ UNCHANGED bridgeVars

\* (mutant) Shutdown without p.wg.Wait().
ShutdownReturnNoWait ==
    /\ ~Crashed
    /\ shutdownPc = "waiting"
    /\ shutdownPc' = "returned"
    /\ UNCHANGED <<concurrency, startOnce, jobs, jobsClosed, sendq, results,
                   resultsClosed, ctxDone, wg, wpc, wcur, wres, wctx, wlate,
                   closers, consumerPc, panicReason, nSubmitted, accepted,
                   lateIssued, pushed, delivered,
                   finished>>
    /\ UNCHANGED bridgeVars

\* p.wg.Wait() returns once the counter is zero.
ShutdownReturn ==
    /\ ~Crashed
    /\ shutdownPc = "waiting"
    /\ wg = 0
    /\ shutdownPc' = "returned"
    /\ UNCHANGED <<concurrency, startOnce, jobs, jobsClosed, sendq, results,
                   resultsClosed, ctxDone, wg, wpc, wcur, wres, wctx, wlate,
                   closers, consumerPc, panicReason, nSubmitted, accepted,
                   lateIssued, pushed, delivered,
                   finished>>
    /\ UNCHANGED bridgeVars

\* ------------------------------------------------------------------ Cancel
\* (mutant) Cancel that also throws away the buffered Results.
CancelDraining ==
    /\ ~Crashed
    /\ ~ctxDone
    /\ ctxDone' = TRUE
    /\ results' = <<>>
    /\ UNCHANGED <<concurrency, startOnce, jobs, jobsClosed, sendq,
                   resultsClosed, wg, wpc, wcur, wres, wctx, wlate, closers,
                   shutdownPc, consumerPc, panicReason, nSubmitted, accepted,
                   lateIssued, pushed, delivered,
                   finished>>
    /\ UNCHANGED bridgeVars

\* p.cancel(): the scope is cancelled when the call returns; later calls do
\* nothing.
Cancel ==
    /\ ~Crashed
    /\ ~ctxDone
    /\ ctxDone' = TRUE
    /\ UNCHANGED <<concurrency, startOnce, jobs, jobsClosed, sendq, results,
                   resultsClosed, wg, wpc, wcur, wres, wctx, wlate, closers,
                   shutdownPc, consumerPc, panicReason, nSubmitted, accepted,
                   lateIssued, pushed, delivered,
                   finished>>
    /\ UNCHANGED bridgeVars

Next ==
    \/ Submit
    \/ Results
    \/ ConsumerRecv
    \/ ConsumerEnd
    \/ \E w \in Workers : WorkerRecv(w)
    \/ \E w \in Workers : WorkerExit(w)
    \/ \E w \in Workers : WorkerSelect(w)
    \/ \E w \in Workers : WorkerCall(w)
    \/ \E w \in Workers : ExecutorReturn(w)
    \/ \E w \in Workers : WorkerSend(w)
    \/ Closer
    \/ Shutdown
    \/ ShutdownReturn
    \/ Cancel

Spec == Init /\ [][Next]_vars

\* Scheduling: every goroutine that can take a step eventually does (the Go
\* scheduler runs every runnable goroutine), every executor call returns and
\* the consumer keeps reading.  The callers of Submit, Shutdown and Cancel
\* are under no obligation.
Fairness ==
    /\ WF_vars(Results)
    /\ WF_vars(ConsumerRecv)
    /\ WF_vars(ConsumerEnd)
    /\ WF_vars(\E w \in Workers : WorkerRecv(w))
    /\ WF_vars(\E w \in Workers : WorkerExit(w))
    /\ WF_vars(\E w \in Workers : WorkerSelect(w))
    /\ WF_vars(\E w \in Workers : WorkerCall(w))
    /\ WF_vars(\E w \in Workers : ExecutorReturn(w))
    /\ WF_vars(\E w \in Workers : WorkerSend(w))
    /\ WF_vars(Closer)
    /\ WF_vars(ShutdownReturn)

LiveSpec == Init /\ [][Next]_vars /\ Fairness

\* ================================================================== Execute
\* A step of the Execute(ctx, config) invocation i.  The pool's state is
\* left alone.
ExecStep(i, next) ==
    /\ ex' = [ex EXCEPT ![i] = next]
    /\ UNCHANGED poolVars
    /\ UNCHANGED utilVars

\* return output, err -- the deferred cancel() of the timeout scope runs.
Return(i, out, err) ==
    [ex[i] EXCEPT !.pc = "returned",
               !.ret = [out |-> out, err |-> err],
               !.deadline = IF @ = "armed" THEN "stopped" ELSE @]

\* (mutant) the timeout scope is derived from a fresh
\* background scope: with a Timeout the caller's cancellation is lost.
ExecCtxDetached(i) ==
    IF ex[i].config.Timeout > 0 THEN ex[i].deadline = "fired"
    ELSE ex[i].callerDone

\* execCtx is done: the caller's scope is cancelled or the deadline passed.
ExecCtxDone(i) == ex[i].callerDone \/ ex[i].deadline = "fired"

\* strings.TrimRight(s, "\n")
RECURSIVE TrimRight(_)
TrimRight(s) ==
    IF s /= <<>> /\ s[Len(s)] = "\n" THEN TrimRight(SubSeq(s, 1, Len(s) - 1))
    ELSE s

\* Position of the first newline of a text, 0 if it has none.
FirstNewline(u) ==
    IF \E i \in 1..Len(u) : u[i] = "\n"
    THEN CHOOSE i \in 1..Len(u) : u[i] = "\n" /\ \A k \in 1..(i - 1) : u[k] /= "\n"
    ELSE 0

\* NewDecodingReader(pipe, enc) of executeBuffered: "ok", an error, or a read
\* of the pipe of the child that has not been started (auto-detect peeks at
\* the first bytes).
DecoderSetup(enc) ==
    IF enc \in {"", "cp1252"} THEN "ok"
    ELSE IF enc = "auto" THEN "peek"
    ELSE "error"

\* cmd.Wait(): an *exec.ExitError for a child that was killed (ExitCode -1)
\* or exited with a non-zero status, the scope's error for a child that
\* exited with status 0 after the watcher had signalled it, nil otherwise.
CmdWait(i) ==
    IF ex[i].child = "killed" THEN [kind |-> "ExitError", code |-> -1]
    ELSE IF ex[i].status /= 0 THEN [kind |-> "ExitError", code |-> ex[i].status]
    ELSE IF ex[i].watchErr THEN [kind |-> "ctx", code |-> 0]
    ELSE [kind |-> "nil", code |-> 0]

\* if waitErr != nil { if exitErr, ok := waitErr.(*exec.ExitError); ok {
\*     output.ExitCode = exitErr.ExitCode() } else { return output, err } }
\* return output, nil
FinishWait(i, output, waitErr) ==
    IF waitErr.kind = "ExitError"
    THEN Return(i, [output EXCEPT !.ExitCode = waitErr.code], "nil")
    ELSE IF waitErr.kind = "nil" THEN Return(i, output, "nil")
    ELSE Return(i, output, ErrExecFailed)

ExecuteCall(i) ==
    /\ ex[i].pc = "idle"
    /\ ExecStep(i, [ex[i] EXCEPT !.pc = "validating"])
    /\ UNCHANGED onceVars

\* (mutant) validateWSL() without the sync.Once: every invocation probes
\* the host again.
ValidateEveryCall(i) ==
    /\ ex[i].pc = "validating"
    /\ wslCheckOnce' = TRUE
    /\ probes' = probes + 1
    /\ wslCheckErr' = IF ex[i].host.isWSL THEN "nil" ELSE ErrNotWSL
    /\ ExecStep(i, IF wslCheckErr' /= "nil" THEN Return(i, ZeroOutput, wslCheckErr')
                   ELSE [ex[i] EXCEPT !.pc = "resolving"])

\* validateWSL(): the check runs under wslCheckOnce; its error is returned
\* with Output{}.
ValidateWSL(i) ==
    /\ ex[i].pc = "validating"
    /\ wslCheckOnce' = TRUE
    /\ probes' = IF wslCheckOnce THEN probes ELSE probes + 1
    /\ wslCheckErr' = IF wslCheckOnce THEN wslCheckErr
                      ELSE IF ex[i].host.isWSL THEN "nil" ELSE ErrNotWSL
    /\ ExecStep(i, IF wslCheckErr' /= "nil" THEN Return(i, ZeroOutput, wslCheckErr')
                ELSE [ex[i] EXCEPT !.pc = "resolving"])

\* resolveCommand(config.Command)
ResolveCommand(i) ==
    /\ ex[i].pc = "resolving"
    /\ ExecStep(i, [ex[i] EXCEPT !.pc = "starting"])
    /\ UNCHANGED onceVars

\* (mutant) Execute takes the buffered branch whatever config.Interactive
\* says.
PrepareCommandBuffered(i) ==
    /\ ex[i].pc = "starting"
    /\ LET conv == IF ex[i].config.ConvertPaths
                   THEN convertPathArgs(ex[i].config.Args)
                   ELSE [args |-> ex[i].config.Args, err |-> "nil"]
       IN  ExecStep(i,
             IF conv.err /= "nil"
             THEN Return(i, ZeroOutput, ErrPathConversion)
             ELSE [ex[i] EXCEPT
                     !.args = conv.args,
                     !.deadline = IF ex[i].config.Timeout > 0 THEN "armed"
                                  ELSE "none",
                     !.pc = "pipes"])
    /\ UNCHANGED onceVars

\* convertPathArgs, context.WithTimeout, exec.CommandContext, PrepareEnv and
\* the choice of the capture mode.
PrepareCommand(i) ==
    /\ ex[i].pc = "starting"
    /\ LET conv == IF ex[i].config.ConvertPaths
                   THEN convertPathArgs(ex[i].config.Args)
                   ELSE [args |-> ex[i].config.Args, err |-> "nil"]
       IN  ExecStep(i,
             IF conv.err /= "nil"
             THEN Return(i, ZeroOutput, ErrPathConversion)
             ELSE [ex[i] EXCEPT
                     !.args = conv.args,
                     !.deadline = IF ex[i].config.Timeout > 0 THEN "armed"
                                  ELSE "none",
                     !.pc = IF ex[i].config.Interactive THEN "launch"
                            ELSE "pipes"])
    /\ UNCHANGED onceVars

\* executeBuffered up to cmd.Start: the pipes, the goroutine copying
\* config.Stdin, the decoders.
SetupBuffered(i) ==
    /\ ex[i].pc = "pipes"
    /\ LET copier == IF ex[i].config.Stdin THEN "copying" ELSE "none"
           dec == DecoderSetup(ex[i].config.Encoding)
       IN  ExecStep(i, 
             IF dec = "error"
             THEN [Return(i, ZeroOutput, ErrDecoder) EXCEPT !.stdinCopier = copier]
             ELSE [ex[i] EXCEPT !.stdinCopier = copier,
                             !.pc = IF dec = "peek" THEN "peeking"
                                    ELSE "launch"])
    /\ UNCHANGED onceVars

\* io.Copy(stdinPipe, config.Stdin) runs to the end of the caller's stream.
StdinCopy(i) ==
    /\ ex[i].stdinCopier = "copying"
    /\ ExecStep(i, [ex[i] EXCEPT !.stdinCopier = "done"])
    /\ UNCHANGED onceVars

\* (mutant) cmd.Start() does not look at execCtx: a child is started under a
\* scope that is already done.
StartChildAnyScope(i) ==
    /\ ex[i].pc = "launch"
    /\ ExecStep(i,
         IF ex[i].host.launch = "fail"
         THEN Return(i, ZeroOutput, ErrStart)
         ELSE [ex[i] EXCEPT !.pc = "running",
                         !.child = "running",
                         !.readers = IF ex[i].config.Interactive THEN {}
                                     ELSE {"stdout", "stderr"}])
    /\ UNCHANGED onceVars

\* cmd.Start(): fails when the binary cannot be started or execCtx is
\* already done; otherwise the child runs and, in buffered mode, the two
\* reader goroutines are started.
StartChild(i) ==
    /\ ex[i].pc = "launch"
    /\ ExecStep(i, 
         IF ex[i].host.launch = "fail" \/ ExecCtxDone(i)
         THEN Return(i, ZeroOutput, ErrStart)
         ELSE [ex[i] EXCEPT !.pc = "running",
                         !.child = "running",
                         !.readers = IF ex[i].config.Interactive THEN {}
                                     ELSE {"stdout", "stderr"}])
    /\ UNCHANGED onceVars

\* The child writes a character to the stdout pipe or to the stderr pipe
\* of buffered mode.
ChildWrite(i) ==
    /\ ex[i].child = "running"
    /\ ~ex[i].config.Interactive
    /\ Len(ex[i].pipeOut) + Len(ex[i].pipeErr) < MaxOut
    /\ \E c \in Chars :
          \/ ExecStep(i, [ex[i] EXCEPT !.pipeOut = Append(@, c)])
          \/ ExecStep(i, [ex[i] EXCEPT !.pipeErr = Append(@, c)])
    /\ UNCHANGED onceVars

\* The child exits on its own, with status 0 or with a non-zero status.
ChildExit(i) ==
    /\ ex[i].child = "running"
    /\ \E st \in {0, 3} :
          ExecStep(i, [ex[i] EXCEPT !.child = "exited", !.status = st])
    /\ UNCHANGED onceVars

\* The caller cancels the scope it passes to its Execute invocations.
CallerCancel ==
    /\ \E i \in Calls : ex[i].pc \notin {"unused", "returned"}
    /\ \E i \in Calls : ~ex[i].callerDone
    /\ ex' = [i \in Calls |-> [ex[i] EXCEPT !.callerDone = TRUE]]
    /\ UNCHANGED poolVars
    /\ UNCHANGED onceVars
    /\ UNCHANGED utilVars

\* The deadline of context.WithTimeout(ctx, config.Timeout) passes.
DeadlineFires(i) ==
    /\ ex[i].deadline = "armed"
    /\ ExecStep(i, [ex[i] EXCEPT !.deadline = "fired"])
    /\ UNCHANGED onceVars

\* exec.CommandContext: once execCtx is done the running child is killed.
CtxKill(i) ==
    /\ ex[i].pc \in {"running", "waiting"}
    /\ ex[i].child = "running"
    /\ ExecCtxDone(i)
    /\ ExecStep(i, [ex[i] EXCEPT !.child = "killed", !.status = -1])
    /\ UNCHANGED onceVars

\* execCtx is done after the child exited and before cmd.Wait reaped it: the
\* kill of the unreaped child succeeds and the watcher records ctx.Err().
CtxKillExited(i) ==
    /\ ex[i].pc \in {"running", "waiting"}
    /\ ex[i].child = "exited"
    /\ ExecCtxDone(i)
    /\ ~ex[i].watchErr
    /\ ExecStep(i, [ex[i] EXCEPT !.watchErr = TRUE])
    /\ UNCHANGED onceVars

\* scanner.Scan() of a reader goroutine returns a line: the text up to the
\* next newline or, at the end of the stream, the unterminated rest; the
\* line and "\n" go to the buffer.
ScanLine(pipe, rd, buf) ==
    LET u == SubSeq(pipe, rd + 1, Len(pipe))
        nl == FirstNewline(u)
        n == IF nl > 0 THEN nl ELSE Len(u)
        line == IF nl > 0 THEN SubSeq(u, 1, nl - 1) ELSE u
    IN  [rd |-> rd + n, buf |-> buf \o line \o <<"\n">>]

\* Whether Scan has a line to return: a newline is within what the buffer
\* holds, or the stream ended (the child's end of the pipe is closed) on an
\* unterminated rest that fits the buffer.
CanScan(i, pipe, rd) ==
    LET u == SubSeq(pipe, rd + 1, Len(pipe))
        nl == FirstNewline(u)
    IN  \/ nl > 0 /\ nl <= MaxScanTokenSize
        \/ /\ nl = 0
           /\ u /= <<>>
           /\ Len(u) < MaxScanTokenSize
           /\ ex[i].child \in {"exited", "killed"}

\* The buffer of the scanner is full and holds no newline: Scan sets
\* ErrTooLong.
TooLong(pipe, rd) ==
    LET u == SubSeq(pipe, rd + 1, Len(pipe))
        nl == FirstNewline(u)
    IN  Len(u) >= MaxScanTokenSize /\ (nl = 0 \/ nl > MaxScanTokenSize)

ReadStdout(i) ==
    /\ ex[i].pc = "running"
    /\ "stdout" \in ex[i].readers
    /\ CanScan(i, ex[i].pipeOut, ex[i].rdOut)
    /\ LET r == ScanLine(ex[i].pipeOut, ex[i].rdOut, ex[i].stdoutBuf)
       IN  ExecStep(i, [ex[i] EXCEPT !.rdOut = r.rd, !.stdoutBuf = r.buf])
    /\ UNCHANGED onceVars

ReadStderr(i) ==
    /\ ex[i].pc = "running"
    /\ "stderr" \in ex[i].readers
    /\ CanScan(i, ex[i].pipeErr, ex[i].rdErr)
    /\ LET r == ScanLine(ex[i].pipeErr, ex[i].rdErr, ex[i].stderrBuf)
       IN  ExecStep(i, [ex[i] EXCEPT !.rdErr = r.rd, !.stderrBuf = r.buf])
    /\ UNCHANGED onceVars

\* Scan returns false at the end of the stream; defer wg.Done().
ReaderDone(i) ==
    /\ ex[i].pc = "running"
    /\ ex[i].child \in {"exited", "killed"}
    /\ \E r \in ex[i].readers :
          /\ IF r = "stdout" THEN ex[i].rdOut = Len(ex[i].pipeOut)
             ELSE ex[i].rdErr = Len(ex[i].pipeErr)
          /\ ExecStep(i, [ex[i] EXCEPT !.readers = @ \ {r}])
    /\ UNCHANGED onceVars

\* Scan returns false on a line longer than the buffer: the loop of the
\* reader goroutine ends as at the end of the stream (scanner.Err() is not
\* looked at); defer wg.Done().
ScanTooLong(i) ==
    /\ ex[i].pc = "running"
    /\ \E r \in ex[i].readers :
          /\ IF r = "stdout" THEN TooLong(ex[i].pipeOut, ex[i].rdOut)
             ELSE TooLong(ex[i].pipeErr, ex[i].rdErr)
          /\ ExecStep(i, [ex[i] EXCEPT !.readers = @ \ {r}])
    /\ UNCHANGED onceVars

\* The child writes a character of an output whose lines may be long: a
\* write goes through while the pipe and the buffer of the scanner behind
\* it have room, and blocks otherwise.
ChildWriteLong(i) ==
    /\ ex[i].child = "running"
    /\ ~ex[i].config.Interactive
    /\ Len(ex[i].pipeOut) + Len(ex[i].pipeErr) < MaxLong
    /\ \E c \in Chars :
          \/ /\ Len(ex[i].pipeOut) - ex[i].rdOut < MaxScanTokenSize + PipeCapacity
             /\ ExecStep(i, [ex[i] EXCEPT !.pipeOut = Append(@, c)])
          \/ /\ Len(ex[i].pipeErr) - ex[i].rdErr < MaxScanTokenSize + PipeCapacity
             /\ ExecStep(i, [ex[i] EXCEPT !.pipeErr = Append(@, c)])
    /\ UNCHANGED onceVars

\* executeBuffered: wg.Wait() returns once both readers are done.
ReadersJoined(i) ==
    /\ ex[i].pc = "running"
    /\ ~ex[i].config.Interactive
    /\ ex[i].readers = {}
    /\ ExecStep(i, [ex[i] EXCEPT !.pc = "waiting"])
    /\ UNCHANGED onceVars

\* executeBuffered: cmd.Wait() and the Output with the captured text.
WaitBuffered(i) ==
    /\ ex[i].pc = "waiting"
    /\ ex[i].child \in {"exited", "killed"}
    /\ ExecStep(i, FinishWait(i, [Stdout |-> TrimRight(ex[i].stdoutBuf),
                            Stderr |-> TrimRight(ex[i].stderrBuf),
                            ExitCode |-> 0, Duration |-> 1], CmdWait(i)))
    /\ UNCHANGED onceVars

\* executeInteractive: cmd.Wait() and the Output with the Duration only.
WaitInteractive(i) ==
    /\ ex[i].pc = "running"
    /\ ex[i].config.Interactive
    /\ ex[i].child \in {"exited", "killed"}
    /\ ExecStep(i, FinishWait(i, [ZeroOutput EXCEPT !.Duration = 1], CmdWait(i)))
    /\ UNCHANGED onceVars

ExecNext ==
    \/ \E i \in Calls : ExecuteCall(i)
    \/ \E i \in Calls : ValidateWSL(i)
    \/ \E i \in Calls : ResolveCommand(i)
    \/ \E i \in Calls : PrepareCommand(i)
    \/ \E i \in Calls : SetupBuffered(i)
    \/ \E i \in Calls : StdinCopy(i)
    \/ \E i \in Calls : StartChild(i)
    \/ \E i \in Calls : ChildWrite(i)
    \/ \E i \in Calls : ChildExit(i)
    \/ \E i \in Calls : DeadlineFires(i)
    \/ \E i \in Calls : CtxKill(i)
    \/ \E i \in Calls : CtxKillExited(i)
    \/ \E i \in Calls : ReadStdout(i)
    \/ \E i \in Calls : ReadStderr(i)
    \/ \E i \in Calls : ReaderDone(i)
    \/ \E i \in Calls : ReadersJoined(i)
    \/ \E i \in Calls : WaitBuffered(i)
    \/ \E i \in Calls : WaitInteractive(i)
    \/ CallerCancel

\* One invocation, of any config on any host.
ExecInit ==
    /\ PoolInit({1})
    /\ wslCheckOnce = FALSE
    /\ wslCheckErr = "nil"
    /\ probes = 0
    /\ \E config \in ExecConfigs, host \in Hosts :
          ex = [i \in Calls |-> IF i = 1 THEN ExecIdle(config, host)
                                ELSE NotCalled]
    /\ UtilIdle

SpecExec == ExecInit /\ [][ExecNext]_vars

\* The goroutines of Execute, the runtime and the child are scheduled: each
\* step of the invocation that stays possible is eventually taken, a child
\* that runs eventually exits, and a child whose scope is done is killed.
ExecFairness ==
    \A i \in Calls :
        /\ WF_vars(ExecuteCall(i))
        /\ WF_vars(ValidateWSL(i))
        /\ WF_vars(ResolveCommand(i))
        /\ WF_vars(PrepareCommand(i))
        /\ WF_vars(SetupBuffered(i))
        /\ WF_vars(StartChild(i))
        /\ WF_vars(ChildExit(i))
        /\ WF_vars(CtxKill(i))
        /\ WF_vars(ReadStdout(i))
        /\ WF_vars(ReadStderr(i))
        /\ WF_vars(ReaderDone(i))
        /\ WF_vars(ReadersJoined(i))
        /\ WF_vars(WaitBuffered(i))
        /\ WF_vars(WaitInteractive(i))

LiveSpecExec == ExecInit /\ [][ExecNext]_vars /\ ExecFairness

\* --------------------------------------------------------- long lines
\* One buffered invocation, without input stream, decoder or deadline, of a
\* child whose lines may be longer than the buffer of a scanner.
ScanInit ==
    /\ PoolInit({1})
    /\ wslCheckOnce = FALSE
    /\ wslCheckErr = "nil"
    /\ probes = 0
    /\ ex = [i \in Calls |-> IF i = 1 THEN ExecIdle(DefaultConfig, DefaultHost)
                              ELSE NotCalled]
    /\ UtilIdle

ScanNext ==
    \/ ExecuteCall(1)
    \/ ValidateWSL(1)
    \/ ResolveCommand(1)
    \/ PrepareCommand(1)
    \/ SetupBuffered(1)
    \/ StartChild(1)
    \/ ChildWriteLong(1)
    \/ ChildExit(1)
    \/ ReadStdout(1)
    \/ ReadStderr(1)
    \/ ReaderDone(1)
    \/ ScanTooLong(1)
    \/ ReadersJoined(1)
    \/ WaitBuffered(1)

SpecScan == ScanInit /\ [][ScanNext]_vars

\* ------------------------------------------------- concurrent invocations
\* ResetWSLCheck(): the tests call it between invocations.
ResetWSLCheck ==
    /\ wslCheckOnce
    /\ \A i \in Calls : ex[i].pc \in {"idle", "returned"}
    /\ wslCheckOnce' = FALSE
    /\ wslCheckErr' = "nil"
    /\ probes' = 0
    /\ UNCHANGED ex
    /\ UNCHANGED poolVars
    /\ UNCHANGED utilVars

\* Interactive invocations that differ in their Timeout.
CallConfigs ==
    [Timeout : {0, 1}, ConvertPaths : {FALSE}, Args : {<<>>},
     Encoding : {""}, Stdin : {FALSE}, Interactive : {TRUE}]

\* MaxCalls invocations made by one process, on a host that is a WSL
\* instance or is not, under one caller scope.
CallsInit ==
    /\ PoolInit({1})
    /\ wslCheckOnce = FALSE
    /\ wslCheckErr = "nil"
    /\ probes = 0
    /\ \E isWSL \in BOOLEAN, config \in [Calls -> CallConfigs] :
          ex = [i \in Calls |->
                  ExecIdle(config[i], [isWSL |-> isWSL, launch |-> "ok"])]
    /\ UtilIdle

CallsNext ==
    \/ \E i \in Calls : ExecuteCall(i)
    \/ \E i \in Calls : ValidateWSL(i)
    \/ \E i \in Calls : ResolveCommand(i)
    \/ \E i \in Calls : PrepareCommand(i)
    \/ \E i \in Calls : StartChild(i)
    \/ \E i \in Calls : ChildExit(i)
    \/ \E i \in Calls : DeadlineFires(i)
    \/ \E i \in Calls : CtxKill(i)
    \/ \E i \in Calls : CtxKillExited(i)
    \/ \E i \in Calls : WaitInteractive(i)
    \/ CallerCancel
    \/ ResetWSLCheck

SpecCalls == CallsInit /\ [][CallsNext]_vars

\* ------------------------------------------------------- path translation
\* What a translation call changes besides the translator's own state.
PathStep ==
    /\ UNCHANGED poolVars
    /\ UNCHANGED <<onceVars, ex>>
    /\ UNCHANGED <<procMounts, native>>
    /\ UNCHANGED envVars
    /\ UNCHANGED encVars
    /\ UNCHANGED detVars

\* return result, err
TranslationReturn(c, dir, path, result, err) ==
    tr' = [tr EXCEPT ![c] = [pc |-> "returned", dir |-> dir, path |-> path,
                             result |-> result, err |-> err]]

\* pathCache.Load(key) found nothing: the call goes on to translate.
TranslationMiss(c, dir, path) ==
    tr' = [tr EXCEPT ![c] = [pc |-> "miss", dir |-> dir, path |-> path,
                             result |-> <<>>, err |-> "nil"]]

\* Calls of the internal translation made for key since the last clear.
Lookups(key) == IF key \in DOMAIN lookups THEN lookups[key] ELSE 0

\* A caller may start a call: it has no call in progress, and the key has
\* not been translated MaxLookups times.
MayTranslate(c, key) ==
    /\ tr[c].pc \in {"idle", "returned"}
    /\ Lookups(key) < MaxLookups

\* (mutant) ToWindowsPath without its check for the empty path.
ToWindowsPathUnchecked(c, linuxPath) ==
    LET key == cacheKey("w", linuxPath)
    IN  /\ MayTranslate(c, key)
        /\ IF key \in DOMAIN pathCache
           THEN TranslationReturn(c, "w", linuxPath, pathCache[key], "nil")
           ELSE TranslationMiss(c, "w", linuxPath)
        /\ UNCHANGED <<pathCache, mountTableOnce, mountTable, lookups>>
        /\ PathStep

\* ToWindowsPath(linuxPath), up to pathCache.Load: the empty path is an
\* error, a cached result is returned.
ToWindowsPathLoad(c, linuxPath) ==
    LET key == cacheKey("w", linuxPath)
    IN  /\ MayTranslate(c, key)
        /\ IF linuxPath = <<>>
           THEN TranslationReturn(c, "w", linuxPath, <<>>, ErrEmptyPath)
           ELSE IF key \in DOMAIN pathCache
           THEN TranslationReturn(c, "w", linuxPath, pathCache[key], "nil")
           ELSE TranslationMiss(c, "w", linuxPath)
        /\ UNCHANGED <<pathCache, mountTableOnce, mountTable, lookups>>
        /\ PathStep

\* ToWindowsPath from filepath.Clean on: the cleaned path is translated with
\* the mount table, read on first use, and the result is stored and returned.
ToWindowsPathStore(c) ==
    LET key == cacheKey("w", tr[c].path)
        mounts == IF mountTableOnce THEN mountTable
                  ELSE readMountTable(procMounts)
        result == toWindowsPathInternal(mounts, Clean(tr[c].path))
    IN  /\ tr[c].pc = "miss"
        /\ tr[c].dir = "w"
        /\ mountTableOnce' = TRUE
        /\ mountTable' = mounts
        /\ lookups' = (key :> (Lookups(key) + 1)) @@ lookups
        /\ pathCache' = (key :> result) @@ pathCache
        /\ TranslationReturn(c, "w", tr[c].path, result, "nil")
        /\ PathStep

\* ToLinuxPath(windowsPath), up to pathCache.Load.
ToLinuxPathLoad(c, windowsPath) ==
    LET key == cacheKey("u", windowsPath)
    IN  /\ MayTranslate(c, key)
        /\ IF windowsPath = <<>>
           THEN TranslationReturn(c, "u", windowsPath, <<>>, ErrEmptyPath)
           ELSE IF key \in DOMAIN pathCache
           THEN TranslationReturn(c, "u", windowsPath, pathCache[key], "nil")
           ELSE TranslationMiss(c, "u", windowsPath)
        /\ UNCHANGED <<pathCache, mountTableOnce, mountTable, lookups>>
        /\ PathStep

\* ToLinuxPath from toLinuxPathInternal on: an error is returned without
\* being stored, a result is stored and returned.
ToLinuxPathStore(c) ==
    LET key == cacheKey("u", tr[c].path)
        t == toLinuxPathInternal(tr[c].path)
    IN  /\ tr[c].pc = "miss"
        /\ tr[c].dir = "u"
        /\ lookups' = (key :> (Lookups(key) + 1)) @@ lookups
        /\ IF t.err /= "nil"
           THEN /\ UNCHANGED pathCache
                /\ TranslationReturn(c, "u", tr[c].path, <<>>, t.err)
           ELSE /\ pathCache' = (key :> t.path) @@ pathCache
                /\ TranslationReturn(c, "u", tr[c].path, t.path, "nil")
        /\ UNCHANGED <<mountTableOnce, mountTable>>
        /\ PathStep

\* ClearPathCache()
ClearPathCache ==
    /\ pathCache /= EmptyCache
    /\ pathCache' = EmptyCache
    /\ lookups' = NoLookups
    /\ UNCHANGED <<mountTableOnce, mountTable, tr>>
    /\ PathStep

\* The native paths the callers translate: the empty path, a relative path
\* and a path under the mount of drive c.
LinuxSamples == {<<>>, <<"a">>, <<Sep, "mnt", Sep, "c", Sep, "a">>}

\* The Windows paths the callers translate: the empty path, a path of no
\* recognized format and a drive path.
WindowsSamples == {<<>>, <<"a">>, <<"C", ":", BSep, "a">>}

\* Callers translating concurrently, on a host whose /proc/mounts is
\* readable or not.
PathInit ==
    /\ PoolInit({1})
    /\ wslCheckOnce = FALSE
    /\ wslCheckErr = "nil"
    /\ probes = 0
    /\ ex = NoInvocations
    /\ pathCache = EmptyCache
    /\ mountTableOnce = FALSE
    /\ mountTable = <<>>
    /\ procMounts \in ProcMounts
    /\ tr = [c \in Calls |-> NoTranslation]
    /\ lookups = NoLookups
    /\ native = <<>>
    /\ EnvIdle
    /\ EncIdle
    /\ DetIdle

PathNext ==
    \/ \E c \in Calls, p \in LinuxSamples : ToWindowsPathLoad(c, p)
    \/ \E c \in Calls : ToWindowsPathStore(c)
    \/ \E c \in Calls, w \in WindowsSamples : ToLinuxPathLoad(c, w)
    \/ \E c \in Calls : ToLinuxPathStore(c)
    \/ ClearPathCache

SpecPath == PathInit /\ [][PathNext]_vars

\* One caller translating a native path and translating the result back.
RoundTripInit ==
    /\ PoolInit({1})
    /\ wslCheckOnce = FALSE
    /\ wslCheckErr = "nil"
    /\ probes = 0
    /\ ex = NoInvocations
    /\ pathCache = EmptyCache
    /\ mountTableOnce = FALSE
    /\ mountTable = <<>>
    /\ procMounts \in ProcMounts
    /\ tr = [c \in Calls |-> NoTranslation]
    /\ lookups = NoLookups
    /\ native \in NativePaths
    /\ EnvIdle
    /\ EncIdle
    /\ DetIdle

RoundTripNext ==
    \/ tr[1].pc = "idle" /\ ToWindowsPathLoad(1, native)
    \/ ToWindowsPathStore(1)
    \/ /\ tr[1].pc = "returned"
       /\ tr[1].dir = "w"
       /\ ToLinuxPathLoad(1, tr[1].result)
    \/ ToLinuxPathStore(1)

SpecRoundTrip == RoundTripInit /\ [][RoundTripNext]_vars

\* ------------------------------------------------------------ environment
\* What a call of the environment functions leaves alone.
EnvStep ==
    /\ UNCHANGED poolVars
    /\ UNCHANGED <<onceVars, ex>>
    /\ UNCHANGED pathVars
    /\ UNCHANGED <<envConfig, environ>>
    /\ UNCHANGED encVars
    /\ UNCHANGED detVars

\* BuildWSLENV(config.Env) is called.
BuildWSLENVCall ==
    /\ \E order \in Orders(DOMAIN envConfig.Env) :
          manifest' = [called |-> TRUE,
                       out |-> BuildWSLENV(envConfig.Env, order)]
    /\ UNCHANGED <<prepared, inferred>>
    /\ EnvStep

\* PrepareEnv(config) is called.
PrepareEnvCall ==
    /\ \E order, wslenvOrder \in Orders(DOMAIN envConfig.Env) :
          LET r == PrepareEnv(envConfig, environ, order, wslenvOrder)
          IN  prepared' = [called |-> TRUE, isNil |-> r.isNil, env |-> r.env,
                           environRead |-> r.environRead]
    /\ UNCHANGED <<manifest, inferred>>
    /\ EnvStep

\* A process with an environment, and a config with an overlay.
EnvInit ==
    /\ PoolInit({1})
    /\ wslCheckOnce = FALSE
    /\ wslCheckErr = "nil"
    /\ probes = 0
    /\ ex = NoInvocations
    /\ PathIdle
    /\ \E overlay \in OverlayMaps, tunneling \in BOOLEAN :
          envConfig = [Env |-> overlay, EnvTunneling |-> tunneling]
    /\ environ \in Environs
    /\ manifest = NotBuilt
    /\ prepared = NotPrepared
    /\ inferred = NotInferred
    /\ EncIdle
    /\ DetIdle

EnvNext == BuildWSLENVCall \/ PrepareEnvCall

SpecEnv == EnvInit /\ [][EnvNext]_vars

\* The characters of the values inferWSLEnvFlag is given.
ValueChars == {":", "/", ".", " ", "x"}

\* Values of n characters.
RECURSIVE ValuesOfLen(_)
ValuesOfLen(n) ==
    IF n = 0 THEN {<<>>}
    ELSE {Append(v, ch) : v \in ValuesOfLen(n - 1), ch \in ValueChars}

\* The values of up to MaxValue characters.
FlagValues == UNION {ValuesOfLen(n) : n \in 0..MaxValue}

\* Names: one of pathLikeKeys, the same in lower case, another.
FlagKeys == {<<"T", "M", "P">>, <<"t", "m", "p">>, <<"X">>}

\* inferWSLEnvFlag(key, value) is called.
InferCall ==
    /\ ~inferred.called
    /\ inferred' = [inferred EXCEPT
                       !.called = TRUE,
                       !.flag = inferWSLEnvFlag(inferred.key, inferred.value)]
    /\ UNCHANGED <<manifest, prepared>>
    /\ EnvStep

\* A name and a value.
FlagInit ==
    /\ PoolInit({1})
    /\ wslCheckOnce = FALSE
    /\ wslCheckErr = "nil"
    /\ probes = 0
    /\ ex = NoInvocations
    /\ PathIdle
    /\ envConfig = [Env |-> [k \in {} |-> <<>>], EnvTunneling |-> FALSE]
    /\ environ = <<>>
    /\ manifest = NotBuilt
    /\ prepared = NotPrepared
    /\ \E key \in FlagKeys, value \in FlagValues :
          inferred = [called |-> FALSE, key |-> key, value |-> value,
                      flag |-> <<>>]
    /\ EncIdle
    /\ DetIdle

FlagNext == InferCall

SpecFlag == FlagInit /\ [][FlagNext]_vars

\* --------------------------------------------------------------- encoding
\* What a step of the decoding readers leaves alone.
EncStep ==
    /\ UNCHANGED poolVars
    /\ UNCHANGED <<onceVars, ex>>
    /\ UNCHANGED pathVars
    /\ UNCHANGED envVars
    /\ UNCHANGED detVars
    /\ UNCHANGED stream

\* (mutant) newAutoDetectReader without io.MultiReader: the bytes it has
\* peeked at are not put back.
NewAutoDetectReaderDropping ==
    /\ auto.kind = "none"
    /\ \E n \in PeekCounts(stream) :
          LET peek == SubSeq(stream, 1, n)
              e == detectBOMEncoding(peek)
          IN  auto' = [kind |-> IF e = NoEncoding THEN "raw" ELSE "decoded",
                       enc |-> e, peek |-> <<>>, rpos |-> n, got |-> <<>>,
                       eof |-> FALSE]
    /\ UNCHANGED decoding
    /\ EncStep

\* newAutoDetectReader(r): io.ReadAtLeast leaves n bytes in buf; with none
\* r itself is returned, otherwise the peeked bytes are put in front of r
\* and, after a UTF-16 mark, the whole is handed to the decoder.
NewAutoDetectReaderCall ==
    /\ auto.kind = "none"
    /\ \E n \in PeekCounts(stream) :
          LET peek == SubSeq(stream, 1, n)
              e == detectBOMEncoding(peek)
          IN  auto' = [kind |-> IF n = 0 THEN "raw"
                                ELSE IF e = NoEncoding THEN "combined"
                                ELSE "decoded",
                       enc |-> e,
                       peek |-> peek, rpos |-> n, got |-> <<>>,
                       eof |-> FALSE]
    /\ UNCHANGED decoding
    /\ EncStep

\* A Read on the reader returned: the peeked bytes come first, then what
\* is left of r, then EOF.  Under a decoder the bytes go to the decoder.
AutoRead ==
    /\ auto.kind /= "none"
    /\ ~auto.eof
    /\ auto' = IF auto.peek /= <<>>
               THEN [auto EXCEPT !.got = auto.got \o auto.peek,
                                 !.peek = <<>>]
               ELSE IF auto.rpos < Len(stream)
               THEN [auto EXCEPT
                        !.got = auto.got
                                   \o SubSeq(stream, auto.rpos + 1, Len(stream)),
                        !.rpos = Len(stream)]
               ELSE [auto EXCEPT !.eof = TRUE]
    /\ UNCHANGED decoding
    /\ EncStep

\* What has been read from the reader returned for auto: decoded text
\* under a decoder, the bytes themselves otherwise.
AutoOutput ==
    IF auto.kind = "decoded" THEN UTF16Decode(auto.enc, auto.got)
    ELSE auto.got

\* A byte stream.
AutoInit ==
    /\ PoolInit({1})
    /\ wslCheckOnce = FALSE
    /\ wslCheckErr = "nil"
    /\ probes = 0
    /\ ex = NoInvocations
    /\ PathIdle
    /\ EnvIdle
    /\ DetIdle
    /\ stream \in Streams
    /\ auto = NoReader
    /\ decoding = NotDecoding

AutoNext == NewAutoDetectReaderCall \/ AutoRead

SpecAuto == AutoInit /\ [][AutoNext]_vars

\* NewDecodingReader(r, enc) is called.
NewDecodingReaderCall ==
    /\ ~decoding.called
    /\ LET d == NewDecodingReader(decoding.name)
       IN  decoding' = [decoding EXCEPT !.called = TRUE,
                                        !.reader = d.reader, !.err = d.err]
    /\ UNCHANGED auto
    /\ EncStep

\* A selector name.
DecodingInit ==
    /\ PoolInit({1})
    /\ wslCheckOnce = FALSE
    /\ wslCheckErr = "nil"
    /\ probes = 0
    /\ ex = NoInvocations
    /\ PathIdle
    /\ EnvIdle
    /\ DetIdle
    /\ stream = <<>>
    /\ auto = NoReader
    /\ \E name \in EncodingNames :
          decoding = [called |-> FALSE, name |-> name, reader |-> "nil",
                      err |-> "nil"]

DecodingNext == NewDecodingReaderCall

SpecDecoding == DecodingInit /\ [][DecodingNext]_vars

\* -------------------------------------------------- argument translation
\* One invocation under WSL, with any list of up to MaxArgs arguments and
\* either setting of ConvertPaths.
ArgsInit ==
    /\ PoolInit({1})
    /\ wslCheckOnce = FALSE
    /\ wslCheckErr = "nil"
    /\ probes = 0
    /\ \E cp \in BOOLEAN, n \in 0..MaxArgs :
       \E args \in ArgsOfLen(n) :
          ex = [i \in Calls |->
                  IF i = 1
                  THEN ExecIdle([DefaultConfig EXCEPT !.ConvertPaths = cp,
                                                      !.Args = args,
                                                      !.Interactive = TRUE],
                                DefaultHost)
                  ELSE NotCalled]
    /\ UtilIdle

\* Execute up to exec.CommandContext(execCtx, resolvedCmd, args...).
ArgsNext ==
    \/ ExecuteCall(1)
    \/ ValidateWSL(1)
    \/ ResolveCommand(1)
    \/ PrepareCommand(1)

SpecArgs == ArgsInit /\ [][ArgsNext]_vars

\* -------------------------------------------------------------- detection
\* What a step of the detection leaves alone.
DetStep ==
    /\ UNCHANGED poolVars
    /\ UNCHANGED <<onceVars, ex>>
    /\ UNCHANGED pathVars
    /\ UNCHANGED envVars
    /\ UNCHANGED encVars

\* IsWSL() or DetectWSLVersion() is called: the caller arrives at
\* wslDetectOnce.Do(detect).
DetectCall(c, fn) ==
    /\ dc[c].pc \in {"idle", "returned"}
    /\ dc' = [dc EXCEPT ![c] = [pc |-> "do", fn |-> fn, ret |-> 0]]
    /\ UNCHANGED <<procVersion, wslDetectOnce, wslDetected, wslVersion,
                   readerCalls>>
    /\ DetStep

\* (mutant) IsWSL and DetectWSLVersion calling detect() directly.
DetectEveryCall(c) ==
    /\ dc[c].pc = "do"
    /\ wslDetectOnce /= "running"
    /\ wslDetectOnce' = "running"
    /\ readerCalls' = readerCalls + 1
    /\ dc' = [dc EXCEPT ![c].pc = "detect"]
    /\ UNCHANGED <<procVersion, wslDetected, wslVersion>>
    /\ DetStep

\* wslDetectOnce.Do(detect), the first caller: it runs detect, which starts
\* by calling procVersionReader.
OnceDoDetect(c) ==
    /\ dc[c].pc = "do"
    /\ wslDetectOnce = "fresh"
    /\ wslDetectOnce' = "running"
    /\ readerCalls' = readerCalls + 1
    /\ dc' = [dc EXCEPT ![c].pc = "detect"]
    /\ UNCHANGED <<procVersion, wslDetected, wslVersion>>
    /\ DetStep

\* detect() assigns wslDetected.
DetectFlag(c) ==
    /\ dc[c].pc = "detect"
    /\ wslDetected' = detect(procVersion).wslDetected
    /\ dc' = [dc EXCEPT ![c].pc = "version"]
    /\ UNCHANGED <<procVersion, wslDetectOnce, wslVersion, readerCalls>>
    /\ DetStep

\* detect() assigns wslVersion and returns; Do marks the Once as done.
DetectVersion(c) ==
    /\ dc[c].pc = "version"
    /\ wslVersion' = detect(procVersion).wslVersion
    /\ wslDetectOnce' = "done"
    /\ dc' = [dc EXCEPT ![c].pc = "do"]
    /\ UNCHANGED <<procVersion, wslDetected, readerCalls>>
    /\ DetStep

\* Do returns, at once for a caller that finds the Once done and after
\* detect has returned for every other caller; IsWSL returns wslDetected,
\* DetectWSLVersion returns wslVersion.
DetectReturn(c) ==
    /\ dc[c].pc = "do"
    /\ wslDetectOnce = "done"
    /\ dc' = [dc EXCEPT ![c].pc = "returned",
                        ![c].ret = IF dc[c].fn = "IsWSL"
                                   THEN IF wslDetected THEN 1 ELSE 0
                                   ELSE wslVersion]
    /\ UNCHANGED <<procVersion, wslDetectOnce, wslDetected, wslVersion,
                   readerCalls>>
    /\ DetStep

\* resetDetection(), as the tests of the package use it: between calls, and
\* together with the injection of another procVersionReader.
resetDetection ==
    /\ wslDetectOnce = "done"
    /\ \A c \in Calls : dc[c].pc \in {"idle", "returned"}
    /\ wslDetectOnce' = "fresh"
    /\ wslDetected' = FALSE
    /\ wslVersion' = WSLVersionNone
    /\ readerCalls' = 0
    /\ procVersion' \in ProcVersions
    /\ dc' = [c \in Calls |-> NoDetection]
    /\ DetStep

\* Callers asking concurrently, on a host with any /proc/version.
DetInit ==
    /\ PoolInit({1})
    /\ wslCheckOnce = FALSE
    /\ wslCheckErr = "nil"
    /\ probes = 0
    /\ ex = NoInvocations
    /\ PathIdle
    /\ EnvIdle
    /\ EncIdle
    /\ procVersion \in ProcVersions
    /\ wslDetectOnce = "fresh"
    /\ wslDetected = FALSE
    /\ wslVersion = WSLVersionNone
    /\ readerCalls = 0
    /\ dc = [c \in Calls |-> NoDetection]

DetNext ==
    \/ \E c \in Calls, fn \in {"IsWSL", "DetectWSLVersion"} : DetectCall(c, fn)
    \/ \E c \in Calls : OnceDoDetect(c)
    \/ \E c \in Calls : DetectFlag(c)
    \/ \E c \in Calls : DetectVersion(c)
    \/ \E c \in Calls : DetectReturn(c)
    \/ resetDetection

SpecDet == DetInit /\ [][DetNext]_vars

\* ================================================================== claims
\* Number of positions of a sequence of Results that carry config j.
ResultsFor(seq, j) == Cardinality({i \in 1..Len(seq) : seq[i].cfg = j})

\* Number of positions of the job buffer that hold config j.
QueuedCount(j) == Cardinality({i \in 1..Len(jobs) : jobs[i] = j})

\* Number of workers that hold config j.
HeldCount(j) == Cardinality({w \in InFlight : wcur[w] = j})

\* C1: the number of executor calls in progress never exceeds the pool's
\* concurrency N, whatever the interleaving of Submit, Results, Shutdown and
\* Cancel; a worker takes a config only while it holds none, and lets go of
\* the one it holds only by pushing that config's Result (after the executor
\* returned or the job was failed fast).
C1_OneJobPerWorker ==
    \A w \in Workers :
        /\ (wcur'[w] /= wcur[w] /\ wcur'[w] /= 0)
              => (wcur[w] = 0 /\ wpc[w] = "recv")
        /\ (wcur[w] /= 0 /\ wcur'[w] = 0)
              => /\ wpc[w] = "send"
                 /\ pushed' = Append(pushed, wres[w])
                 /\ wres[w].cfg = wcur[w]

C1_ConcurrencyLimit ==
    /\ [](Cardinality(Executing) <= concurrency)
    /\ [](Len(wpc) <= concurrency)
    /\ [][C1_OneJobPerWorker]_vars

\* M > N jobs submitted, N executor calls in progress and a job waiting.
C1_Witness ==
    /\ concurrency >= 2
    /\ Cardinality(Executing) = concurrency
    /\ jobs /= <<>>

\* C2: every accepted config is, at any time, in exactly one place: queued,
\* held by one worker, or pushed as one Result carrying that config; so when
\* the result stream has been closed each accepted config has exactly one
\* Result on it, and when the consumer's loop has ended it has received
\* exactly one Result for each.
C2_ExactlyOneResult ==
    /\ \A j \in accepted :
          QueuedCount(j) + HeldCount(j) + ResultsFor(pushed, j) = 1
    /\ \A i \in 1..Len(pushed) : pushed[i].cfg \in accepted
    /\ \A w \in Workers : wpc[w] = "send" => wres[w].cfg = wcur[w]
    /\ resultsClosed => \A j \in accepted : ResultsFor(pushed, j) = 1
    /\ consumerPc = "ended" => \A j \in accepted : ResultsFor(delivered, j) = 1

\* The consumer's loop ended with one Result per submission: a success, an
\* executor error and a cancellation among them.
C2_Witness ==
    /\ consumerPc = "ended"
    /\ Len(delivered) = MaxJobs
    /\ \E i \in 1..Len(delivered) : delivered[i].err = "nil"
    /\ \E i \in 1..Len(delivered) : delivered[i].err = ErrExec
    /\ \E i \in 1..Len(delivered) : delivered[i].err = ErrCanceled

\* C3: the result stream is closed only after Shutdown was called (the job
\* queue is closed) and every accepted config has pushed its Result (nothing
\* queued, nothing held by a worker); no send on the closed result stream and
\* no second close of it ever happens.
C3_CloseAfterDrain ==
    /\ resultsClosed =>
          /\ jobsClosed
          /\ shutdownPc /= "idle"
          /\ jobs = <<>>
          /\ InFlight = {}
          /\ \A j \in accepted : ResultsFor(pushed, j) = 1
    /\ panicReason /= "send on closed channel: results"
    /\ panicReason /= "close of closed channel: results"

\* The stream was closed after all submitted jobs pushed their results.
C3_Witness ==
    /\ resultsClosed
    /\ Len(pushed) = MaxJobs

\* A panic raised in a caller of the pool: a send on, or a second close of,
\* the closed job queue.  It ends the process.
ClientPanic ==
    panicReason \in {"send on closed channel: jobs",
                     "close of closed channel: jobs"}

\* Shutdown has returned, the result stream is closed and drained, the
\* consumer's loop has ended and every accepted config has been delivered.
Drained ==
    /\ shutdownPc = "returned"
    /\ resultsClosed
    /\ consumerPc = "ended"
    /\ jobs = <<>>
    /\ InFlight = {}
    /\ \A j \in accepted : ResultsFor(delivered, j) = 1

\* C4: under fair scheduling, with executor calls that return and a consumer
\* that keeps reading, once Shutdown has closed the job queue the queued and
\* in-flight jobs complete, Shutdown returns, the result stream is closed and
\* the consumer's loop ends -- in every run in which no caller of the pool
\* panics the process by sending on or closing the closed queue.
C4_ShutdownDrains == (jobsClosed /\ ~Crashed) ~> (Drained \/ ClientPanic)

\* Shutdown returned and the consumer's loop ended with every result.
C4_Witness ==
    /\ Drained
    /\ Len(delivered) = MaxJobs

\* C5: a worker holding a config it dequeued after Cancel returned never
\* calls the executor for it: it goes from the select straight to the send,
\* the Result it builds carries that config, the scope's cancellation error
\* and an empty Output, and that Result is what it pushes.
C5_LateStep ==
    \A w \in Workers :
        wlate[w] =>
            /\ wpc'[w] \notin {"call", "exec"}
            /\ wcur'[w] /= wcur[w] =>
                  pushed' = Append(pushed, [cfg |-> wcur[w], out |-> "",
                                            err |-> ErrCanceled])

C5_FailFastAfterCancel ==
    /\ [](\A w \in Workers :
             wlate[w] =>
                /\ ctxDone
                /\ wpc[w] \in {"select", "send"}
                /\ wpc[w] = "send" =>
                      wres[w] = [cfg |-> wcur[w], out |-> "",
                                 err |-> ErrCanceled])
    /\ [][C5_LateStep]_vars

\* A config dequeued after Cancel has its fail-fast Result built, after an
\* earlier job completed normally.
C5_Witness ==
    /\ \E w \in Workers : wlate[w] /\ wpc[w] = "send"
    /\ \E i \in 1..Len(pushed) : pushed[i].err = "nil"

\* C6: every executor call in progress was handed the pool's own scope, so
\* once Cancel has returned every call in progress, whether it was made
\* before or after Cancel, observes a cancelled scope.
C6_CancelReachesExecutors ==
    \A w \in Executing :
        /\ wctx[w].scope = "pool"
        /\ ctxDone => ScopeDone(wctx[w].scope)

\* After Cancel, one call made before it and one made after it are in
\* progress.
C6_Witness ==
    /\ ctxDone
    /\ \E w \in Executing : wctx[w].lateStart
    /\ \E w \in Executing : ~wctx[w].lateStart

\* C7: every Result pushed is either still buffered or already delivered, in
\* push order and unchanged, at any time, so also across Cancel; the Cancel
\* step itself changes neither the job queue, the parked senders, the result
\* buffer nor what was delivered.
C7_CancelStep ==
    ctxDone' /= ctxDone =>
        /\ jobs' = jobs
        /\ sendq' = sendq
        /\ results' = results
        /\ pushed' = pushed
        /\ delivered' = delivered

C7_CancelKeepsResults ==
    /\ [](pushed = delivered \o results)
    /\ [][C7_CancelStep]_vars

\* After Cancel the consumer has received a completed job's Result and,
\* behind it, a cancelled job's Result.
C7_Witness ==
    /\ ctxDone
    /\ Len(delivered) >= 2
    /\ delivered[1].err = "nil"
    /\ delivered[2].err = ErrCanceled

\* C8: the job buffer never holds more than 2*N configs and a sender is
\* parked only while it is full; a Submit made while the buffer has room is
\* accepted in the same step (it waits for no job); a Submit made while the
\* buffer is full is parked, and a parked Submit is accepted only in a step
\* in which a worker dequeues a config.
C8_SubmitStep ==
    /\ (nSubmitted' /= nSubmitted /\ ~jobsClosed /\ Len(jobs) < 2 * concurrency)
          => ((nSubmitted + 1) \in accepted' /\ sendq' = sendq)
    /\ (nSubmitted' /= nSubmitted /\ ~jobsClosed /\ Len(jobs) >= 2 * concurrency)
          => ((nSubmitted + 1) \notin accepted'
              /\ sendq' = Append(sendq, nSubmitted + 1))
    /\ ((sendq /= <<>> /\ sendq' /= sendq /\ nSubmitted' = nSubmitted)
          => /\ \E w \in Workers : wpc[w] = "recv" /\ wcur'[w] = Head(jobs)
             /\ sendq' = Tail(sendq)
             /\ Head(sendq) \in accepted')

C8_Backpressure ==
    /\ [](Len(jobs) <= 2 * concurrency)
    /\ [](sendq /= <<>> => Len(jobs) = 2 * concurrency)
    /\ [](\A i \in 1..Len(sendq) : sendq[i] \notin accepted)
    /\ [][C8_SubmitStep]_vars

\* A Submit is parked on the full buffer.
C8_Witness ==
    /\ sendq /= <<>>
    /\ Len(jobs) = 2 * concurrency

\* C9: a config passed to Submit after Shutdown closed the job queue is never
\* accepted, queued, held by a worker (so never handed to the executor) or
\* given a Result; the Shutdown
\* step leaves the queued configs, the workers' configs and the Results as
\* they were.
C9_ShutdownStep ==
    jobsClosed' /= jobsClosed =>
        /\ jobs' = jobs
        /\ accepted' = accepted
        /\ wcur' = wcur
        /\ wpc' = wpc
        /\ results' = results
        /\ pushed' = pushed

C9_NoWorkAfterShutdown ==
    /\ [](\A j \in lateIssued :
             /\ j \notin accepted
             /\ QueuedCount(j) = 0
             /\ HeldCount(j) = 0
             /\ ResultsFor(pushed, j) = 0)
    /\ [][C9_ShutdownStep]_vars

\* Submit was called after Shutdown while a job submitted before it was
\* still running.
C9_Witness ==
    /\ lateIssued /= {}
    /\ Executing /= {}

\* C10: an Execute that returns after its child was killed because execCtx
\* was done (deadline passed or caller's scope cancelled) returns a non-nil
\* error, and in buffered mode its Output holds all the text the child wrote
\* before it was killed.
C10_KilledIsAnError ==
    \A i \in Calls :
        (ex[i].pc = "returned" /\ ex[i].child = "killed") =>
            /\ ex[i].ret.err /= "nil"
            /\ ~ex[i].config.Interactive =>
                  /\ ex[i].rdOut = Len(ex[i].pipeOut)
                  /\ ex[i].rdErr = Len(ex[i].pipeErr)
                  /\ ex[i].ret.out.Stdout = TrimRight(ex[i].stdoutBuf)
                  /\ ex[i].ret.out.Stderr = TrimRight(ex[i].stderrBuf)

\* C11: a child is killed only once the caller's scope is cancelled or its
\* own deadline has passed, and as soon as either is the case the kill of
\* the running child is due; without a Timeout no deadline exists, so only
\* the caller's cancellation kills; the step in which one invocation's
\* deadline passes leaves the caller's scope and every other invocation as
\* they were.
C11_DeadlineStep ==
    \A i \in Calls :
        (ex[i].deadline = "armed" /\ ex'[i].deadline = "fired") =>
            \A j \in Calls :
                /\ ex'[j].callerDone = ex[j].callerDone
                /\ j /= i => ex'[j] = ex[j]

C11_TimeoutComposition ==
    /\ [](\A i \in Calls :
             /\ ex[i].config.Timeout = 0 => ex[i].deadline = "none"
             /\ ex[i].child = "killed" =>
                   (ex[i].callerDone \/ ex[i].deadline = "fired")
             /\ (ex[i].child = "running"
                   /\ (ex[i].callerDone \/ ex[i].deadline = "fired")) =>
                   ENABLED CtxKill(i))
    /\ [][C11_DeadlineStep]_vars

\* One invocation's child was killed by its own deadline while the caller's
\* scope is live and the child of an invocation without Timeout still runs.
C11_Witness ==
    \E i, j \in Calls :
        /\ ex[i].child = "killed"
        /\ ex[i].deadline = "fired"
        /\ ~ex[i].callerDone
        /\ ex[j].config.Timeout = 0
        /\ ex[j].child = "running"

\* C12: an Execute that returns after its child exited on its own returns a
\* nil error and an Output whose ExitCode is the child's exit status, zero
\* or not, in both capture modes.
C12_ExitStatusIsResult ==
    \A i \in Calls :
        (ex[i].pc = "returned" /\ ex[i].child = "exited") =>
            /\ ex[i].ret.err = "nil"
            /\ ex[i].ret.out.ExitCode = ex[i].status

\* C13: when cmd.Start() is reached with a binary that cannot be started or
\* with a scope that is already done, that step makes Execute return the
\* start error with the zero Output and no child; and whenever Execute has
\* returned the start error, in either capture mode, its Output is the zero
\* Output and no child was started.
C13_StartStep ==
    \A i \in Calls :
        (/\ ex[i].pc = "launch"
         /\ ex'[i].pc /= "launch"
         /\ \/ ex[i].host.launch = "fail"
            \/ ex[i].callerDone
            \/ ex[i].deadline = "fired") =>
            /\ ex'[i].pc = "returned"
            /\ ex'[i].ret = [out |-> ZeroOutput, err |-> ErrStart]
            /\ ex'[i].child = "none"

C13_LaunchError ==
    /\ [](\A i \in Calls :
             (ex[i].pc = "returned" /\ ex[i].ret.err = ErrStart) =>
                 /\ ex[i].ret.out = ZeroOutput
                 /\ ex[i].child = "none")
    /\ [][C13_StartStep]_vars

\* A buffered-mode Execute returned the start error for a binary that can
\* be started, because the scope was done at cmd.Start().
C13_Witness ==
    \E i \in Calls :
        /\ ex[i].pc = "returned"
        /\ ex[i].ret.err = ErrStart
        /\ ex[i].host.launch = "ok"
        /\ ~ex[i].config.Interactive

\* C14: between process start (or a ResetWSLCheck) and the next reset the
\* host is probed at most once, however the invocations interleave; an
\* invocation that validates after the probe ran does not probe again and
\* gets the recorded outcome; and while the recorded outcome is the
\* environment error, every invocation that has validated has returned that
\* error with the zero Output, without resolving the command, translating
\* arguments, arming a deadline or starting a child.
C14_ValidateStep ==
    \A i \in Calls :
        (ex[i].pc = "validating" /\ ex'[i].pc /= "validating"
           /\ wslCheckOnce) =>
            /\ probes' = probes
            /\ wslCheckErr' = wslCheckErr
            /\ wslCheckErr /= "nil" =>
                  /\ ex'[i].pc = "returned"
                  /\ ex'[i].ret = [out |-> ZeroOutput, err |-> wslCheckErr]

C14_ValidateOnce ==
    /\ [](probes <= 1)
    /\ [](wslCheckErr /= "nil" =>
             \A i \in Calls :
                 /\ ex[i].pc \in {"idle", "validating", "returned"}
                 /\ ex[i].pc = "returned" =>
                       /\ ex[i].ret = [out |-> ZeroOutput, err |-> wslCheckErr]
                       /\ ex[i].args = ex[i].config.Args
                       /\ ex[i].deadline = "none"
                       /\ ex[i].child = "none")
    /\ [][C14_ValidateStep]_vars

\* After one probe, two invocations have returned the environment error.
C14_Witness ==
    /\ probes = 1
    /\ wslCheckErr = ErrNotWSL
    /\ \E i, j \in Calls :
          /\ i /= j
          /\ ex[i].pc = "returned" /\ ex[i].ret.err = ErrNotWSL
          /\ ex[j].pc = "returned" /\ ex[j].ret.err = ErrNotWSL

\* C16: an invocation whose Encoding selector is not recognized never has a
\* child, and when it has returned it returned a non-nil error, in buffered
\* and in interactive mode.
C16_UnknownEncodingAborts ==
    \A i \in Calls :
        DecoderSetup(ex[i].config.Encoding) = "error" =>
            /\ ex[i].child = "none"
            /\ ex[i].pc = "returned" => ex[i].ret.err /= "nil"

\* The state of the per-invocation state machine a position of Execute
\* belongs to: 0 Idle, 1 Validating, 2 Resolving, 3 Starting, 4 Running,
\* 5 terminal.
Stage(pc) ==
    CASE pc \in {"unused", "idle"} -> 0
      [] pc = "validating" -> 1
      [] pc = "resolving" -> 2
      [] pc \in {"starting", "pipes", "peeking", "launch"} -> 3
      [] pc \in {"running", "waiting"} -> 4
      [] pc = "returned" -> 5

\* C17: an invocation moves through Idle, Validating, Resolving, Starting,
\* Running in this order, leaving the sequence only for the terminal state;
\* and, the child being one that exits, every invocation that was made
\* eventually returns, in both capture modes and for every Encoding
\* selector, auto-detect in buffered mode included.
C17_StageStep ==
    \A i \in Calls :
        Stage(ex'[i].pc) \in {Stage(ex[i].pc), Stage(ex[i].pc) + 1, 5}

C17_ReachesTerminal ==
    /\ [][C17_StageStep]_vars
    /\ \A i \in Calls :
          (ex[i].pc = "validating") ~> (ex[i].pc = "returned")

\* C18: when a buffered-mode Execute that started its child has returned,
\* the concurrent tasks it started have all finished: the two readers of
\* stdout and stderr and, when an input stream was supplied, the task that
\* copies it to the child.
C18_AllTasksJoined ==
    \A i \in Calls :
        (/\ ex[i].pc = "returned"
         /\ ~ex[i].config.Interactive
         /\ ex[i].child /= "none") =>
            /\ ex[i].readers = {}
            /\ ex[i].config.Stdin => ex[i].stdinCopier = "done"

\* C19: an interactive invocation never sets up pipes or decoders, whatever
\* its Encoding selector, recognized or not; when it has returned, Stdout
\* and Stderr of its Output are empty; if no child was started the Output
\* is the zero Output with an error, and otherwise only Duration and
\* ExitCode are set: ExitCode is -1 for a killed child and the exit status
\* for a child that exited.
C19_InteractiveOutput ==
    \A i \in Calls :
        ex[i].config.Interactive =>
            /\ ex[i].pc \notin {"pipes", "peeking", "waiting"}
            /\ ex[i].ret.err /= ErrDecoder
            /\ ex[i].pc = "returned" =>
                  /\ ex[i].ret.out.Stdout = <<>>
                  /\ ex[i].ret.out.Stderr = <<>>
                  /\ IF ex[i].child = "none"
                     THEN /\ ex[i].ret.out = ZeroOutput
                          /\ ex[i].ret.err /= "nil"
                     ELSE /\ ex[i].ret.out.Duration = 1
                          /\ ex[i].ret.out.ExitCode =
                                IF ex[i].child = "killed" THEN -1
                                ELSE ex[i].status

\* An interactive invocation with an unrecognized Encoding returned after
\* its child exited with a non-zero status.
C19_Witness ==
    \E i \in Calls :
        /\ ex[i].config.Interactive
        /\ ex[i].config.Encoding = "bogus"
        /\ ex[i].pc = "returned"
        /\ ex[i].child = "exited"
        /\ ex[i].ret.out.ExitCode = 3

\* C20: Results are pushed on the result stream, which delivers them in the
\* order they were pushed, in the order in which the executor calls
\* returned: whenever a worker pushes the Result of an executor call, no
\* other call that returned earlier still has its Result unpushed.
C20_PushStep ==
    Len(finished') < Len(finished) => finished' = Tail(finished)

C20_CompletionOrder == [][C20_PushStep]_vars

\* C21: the pool's concurrency is at least 1 in every state and never changes
\* (NewPool replaces a requested value <= 0 by the host CPU count); the
\* workers are started in one step, the first Submit or Results, exactly
\* concurrency of them, and their number never changes afterwards however
\* Submit and Results are interleaved.
C21_StartStep ==
    /\ concurrency' = concurrency
    /\ Len(wpc') /= Len(wpc)
          => (~startOnce /\ startOnce' /\ Len(wpc) = 0
                /\ Len(wpc') = concurrency)

C21_FixedConcurrency ==
    /\ [](concurrency >= 1)
    /\ [](Len(wpc) = IF startOnce THEN concurrency ELSE 0)
    /\ [][C21_StartStep]_vars

\* The workers of a default-sized pool are running after two Submit calls
\* and a Results call.
C21_Witness ==
    /\ startOnce
    /\ Len(wpc) = NumCPU
    /\ nSubmitted >= 2
    /\ consumerPc /= "idle"

\* C22: between two clears of the path cache the internal translation runs
\* at most once for each (direction, raw path): once a call has translated a
\* path, no later or concurrent call with the same path translates it again.
C22_OneLookupPerPath ==
    \A key \in DOMAIN lookups : lookups[key] <= 1

\* C23: a call of ToWindowsPath or ToLinuxPath with the empty path returns
\* at once with an error and the empty result, whatever the cache holds and
\* whether or not the mount table has been read, and changes neither the
\* cache nor the mount table nor the count of translations.
C23_EmptyStep ==
    \A c \in Calls :
        (tr'[c] /= tr[c] /\ tr'[c].pc /= "idle" /\ tr'[c].path = <<>>)
            => /\ tr'[c].pc = "returned"
               /\ tr'[c].result = <<>>
               /\ tr'[c].err = ErrEmptyPath
               /\ UNCHANGED <<pathCache, lookups, mountTableOnce, mountTable>>

C23_EmptyPathFails == [][C23_EmptyStep]_vars

\* Both directions have been called with the empty path while the cache
\* holds a translation and the mount table has been read.
C23_Witness ==
    /\ \E c \in Calls : /\ tr[c].pc = "returned"
                        /\ tr[c].dir = "w"
                        /\ tr[c].path = <<>>
                        /\ tr[c].err = ErrEmptyPath
    /\ \E c \in Calls : /\ tr[c].pc = "returned"
                        /\ tr[c].dir = "u"
                        /\ tr[c].path = <<>>
                        /\ tr[c].err = ErrEmptyPath
    /\ pathCache /= EmptyCache
    /\ mountTableOnce

\* C24: for every non-empty native path, absolute or relative, under the
\* mount of a drive or not, ToWindowsPath succeeds and ToLinuxPath of its
\* result succeeds and returns the path cleaned of redundant separators,
\* "." and ".." elements.
C24_RoundTrip ==
    /\ tr[1].pc = "returned" => tr[1].err = "nil"
    /\ (tr[1].pc = "returned" /\ tr[1].dir = "u")
          => tr[1].result = Clean(native)

\* The tokens of a WSLENV value, and the name and the flag of a token.
Tokens(wslenv) == IF wslenv = <<>> THEN <<>> ELSE Split(wslenv, ":")
TokenName(token) == SubSeq(token, 1, Len(token) - 2)
TokenFlag(token) == SubSeq(token, Len(token) - 1, Len(token))

\* C25: BuildWSLENV returns the empty string for an empty map, and otherwise
\* one token NAME<flag> for each variable of the map, joined by ':', the
\* names in increasing lexicographic order; and two evaluations on the same
\* map return the same string in whatever order each iterates the map.
C25_Format ==
    manifest.called =>
        LET tokens == Tokens(manifest.out)
            names == DOMAIN envConfig.Env
        IN  /\ names = {} => manifest.out = <<>>
            /\ Len(tokens) = Cardinality(names)
            /\ {TokenName(tokens[i]) : i \in 1..Len(tokens)} = names
            /\ \A i \in 1..Len(tokens) :
                  TokenFlag(tokens[i]) \in {WSLEnvFlagTranslatePath,
                                            WSLEnvFlagTranslatePathList,
                                            WSLEnvFlagUnixToWin}
            /\ \A i, j \in 1..Len(tokens) :
                  i < j => Less(TokenName(tokens[i]), TokenName(tokens[j]))

C25_Deterministic ==
    /\ []C25_Format
    /\ [][(manifest.called /\ manifest'.called)
              => manifest'.out = manifest.out]_vars

\* BuildWSLENV has returned for a map of three variables.
C25_Witness ==
    /\ manifest.called
    /\ Cardinality(DOMAIN envConfig.Env) = 3
    /\ Len(Tokens(manifest.out)) = 3

\* C26: a value that contains ':' gets the path-list flag exactly when
\* strictly more than half of its colon-separated segments are path-shaped.
C26_MajorityOnly ==
    (inferred.called /\ Index(inferred.value, ":") > 0)
        => LET segments == Split(inferred.value, ":")
               pathCount == Cardinality(pathSegments(segments))
           IN  inferred.flag = WSLEnvFlagTranslatePathList
                  <=> 2 * pathCount > Len(segments)

\* PrepareEnv returns nil exactly when the overlay is empty and tunneling is
\* off, and then has not read the process environment.
NilExactlyWhenInherit ==
    /\ prepared.isNil <=> (DOMAIN envConfig.Env = {}
                            /\ ~envConfig.EnvTunneling)
    /\ prepared.isNil => ~prepared.environRead

IsExtended(i) ==
    /\ envConfig.EnvTunneling
    /\ DOMAIN envConfig.Env /= {}
    /\ i = existingIdx(prepared.env)

C28_OneWSLENV ==
    (prepared.called /\ envConfig.EnvTunneling /\ DOMAIN envConfig.Env /= {})
        => LET env == prepared.env
               entries == {i \in 1..Len(env) : HasPrefix(env[i], WSLENVPrefix)}
               tokens == BuildWSLENV(envConfig.Env,
                             CHOOSE o \in Orders(DOMAIN envConfig.Env) : TRUE)
               inherited == existingIdx(environ)
               value == IF inherited > 0
                        THEN TrimPrefix(environ[inherited], WSLENVPrefix)
                        ELSE <<>>
           IN  /\ Cardinality(entries) = 1
               /\ \A i \in entries :
                     env[i] = WSLENVPrefix \o
                                 (IF value /= <<>>
                                  THEN value \o <<":">> \o tokens
                                  ELSE tokens)
               /\ Len(env) >= Len(environ)
               /\ \A i \in 1..Len(environ) :
                     i /= inherited => env[i] = environ[i]

\* The stream begins with the byte order mark of UTF-16, FF FE or FE FF.
HasUTF16Mark(data) ==
    Len(data) >= 2 /\ <<data[1], data[2]>> \in {<<"FF", "FE">>, <<"FE", "FF">>}

\* C29: whatever is read from the reader returned for auto is the front of
\* the input, in order; at EOF a stream of any length that does not begin
\* with a UTF-16 mark has been read byte for byte, and for a stream that
\* does, the decoder has been given every byte of it, the peeked ones
\* included, and the text read is the decoding of what follows the mark in
\* the byte order of the mark.
C29_NoDataLost ==
    /\ HasPrefix(stream, auto.got)
    /\ auto.eof =>
          IF HasUTF16Mark(stream)
          THEN /\ auto.kind = "decoded"
               /\ auto.got = stream
               /\ AutoOutput =
                     decodeUnits(IF stream[1] = "FF" THEN "LE" ELSE "BE",
                                 SubSeq(stream, 3, Len(stream)))
          ELSE /\ auto.kind /= "decoded"
               /\ AutoOutput = stream

\* A stream of three bytes without a UTF-16 mark has been read to EOF
\* through the peeked bytes and the rest of the reader.
C29_Witness ==
    /\ auto.eof
    /\ auto.kind = "combined"
    /\ Len(stream) = 3

\* C30: NewDecodingReader fails exactly for the names that, with the
\* surrounding spaces removed and in lower case, are none of the documented
\* names and aliases, auto among them; the error names the supported set
\* and comes with no reader.
C30_UniformNames ==
    decoding.called =>
        /\ decoding.err /= "nil"
              <=> ToLowerString(TrimSpace(decoding.name)) \notin KnownNames
        /\ decoding.err /= "nil"
              => (decoding.reader = "nil" /\ decoding.err = ErrUnsupported)

\* C31: the probe is cached. The /proc/version reader is called at most once
\* since the process started or the detection was reset; every call of IsWSL
\* or DetectWSLVersion that has returned carries the value detect computes
\* from what that reader returns; and the calls of IsWSL return true exactly
\* when the calls of DetectWSLVersion return a version other than None.
C31_ProbeCached ==
    /\ readerCalls <= 1
    /\ \A c \in Calls :
          dc[c].pc = "returned" =>
              /\ readerCalls = 1
              /\ dc[c].fn = "IsWSL" =>
                     dc[c].ret = IF detect(procVersion).wslDetected
                                 THEN 1 ELSE 0
              /\ dc[c].fn = "DetectWSLVersion" =>
                     dc[c].ret = detect(procVersion).wslVersion
    /\ \A c, d \in Calls :
          /\ dc[c].pc = "returned" /\ dc[c].fn = "IsWSL"
          /\ dc[d].pc = "returned" /\ dc[d].fn = "DetectWSLVersion"
          => (dc[c].ret = 1 <=> dc[d].ret /= WSLVersionNone)

\* Under WSL, a call of IsWSL and a call of DetectWSLVersion have both
\* returned, after one read.
C31_Witness ==
    /\ readerCalls = 1
    /\ \E c, d \in Calls :
          /\ dc[c].pc = "returned" /\ dc[c].fn = "IsWSL" /\ dc[c].ret = 1
          /\ dc[d].pc = "returned" /\ dc[d].fn = "DetectWSLVersion"
          /\ dc[d].ret = WSLVersion1

\* The argument begins with ./ or ../ (relative), or with / (absolute).
BeginsRelative(a) ==
    Len(a) >= 2 /\ a[1] \in {".", ".."} /\ a[2] = Sep

BeginsAbsolute(a) == Len(a) >= 1 /\ a[1] = Sep

\* A host path: a drive letter, a colon and a separator; or the UNC prefix,
\* the distro name, a separator and then the components.
WellFormedHostPath(w) ==
    \/ Len(w) >= 3 /\ w[1] \in UpperSet /\ w[2] = ":" /\ w[3] = BSep
    \/ /\ HasPrefix(w, UNCLocalhost \o <<getDistroName, BSep>>)
       /\ w[Len(w)] /= BSep

\* Execute has handed the arguments to exec.CommandContext.
ArgsHandedOver(i) == ex[i].pc \in {"launch", "pipes"}

\* C32: with ConvertPaths enabled, every argument that begins with ./ or ../
\* reaches the child as a well-formed host path: a drive-letter path, or the
\* UNC prefix and the distro name followed by a separator and the path's
\* components.
C32_RelativeWellFormed ==
    (ArgsHandedOver(1) /\ ex[1].config.ConvertPaths) =>
        \A k \in 1..Len(ex[1].config.Args) :
            BeginsRelative(ex[1].config.Args[k]) =>
                WellFormedHostPath(ex[1].args[k])

\* What C35 says of one step of Execute: the caller's list stays as it was;
\* and once the arguments are handed over, they are as many as the caller
\* gave, with ConvertPaths disabled they are the caller's, and with it
\* enabled every argument that does not begin with /, ./ or ../ is the
\* caller's at the same position.
C35_ArgsStep ==
    /\ ex'[1].config.Args = ex[1].config.Args
    /\ ArgsHandedOver(1)' =>
          /\ Len(ex'[1].args) = Len(ex[1].config.Args)
          /\ ~ex[1].config.ConvertPaths => ex'[1].args = ex[1].config.Args
          /\ \A k \in 1..Len(ex[1].config.Args) :
                LET a == ex[1].config.Args[k]
                IN  ~(BeginsRelative(a) \/ BeginsAbsolute(a)) =>
                        ex'[1].args[k] = a

\* C35: argument translation touches only the path-shaped arguments, keeps
\* the length and the order of the list and does not mutate the caller's
\* list; with ConvertPaths disabled the arguments are passed unchanged.
C35_OnlyPathShaped == [][C35_ArgsStep]_vars

\* With ConvertPaths enabled, a host-style path and the empty string were
\* handed over next to nothing but themselves, and a path-shaped argument
\* was translated.
C35_Witness ==
    /\ ArgsHandedOver(1)
    /\ ex[1].config.ConvertPaths
    /\ ex[1].config.Args = << <<"C", ":", BSep, "Windows">>,
                              <<Sep, "mnt", Sep, "c", Sep, "x">> >>
    /\ ex[1].args = << <<"C", ":", BSep, "Windows">>,
                       <<"C", ":", BSep, "x">> >>

\* Invocation i went through executeBuffered to its end and returned the
\* captured text.
Captured(i) ==
    /\ ex[i].pc = "returned"
    /\ ~ex[i].config.Interactive
    /\ ex[i].child \in {"exited", "killed"}

\* A text without its final line terminator, if it ends in one.
WithoutFinalNewline(s) ==
    IF s /= <<>> /\ s[Len(s)] = "\n" THEN SubSeq(s, 1, Len(s) - 1) ELSE s

\* C33: in buffered mode the captured Stdout, and likewise Stderr, is what
\* the child wrote with exactly one trailing newline removed: output ending
\* in empty lines keeps all but the final line terminator, and output
\* without a trailing newline is returned unchanged.
C33_OneNewlineRemoved ==
    Captured(1) =>
        /\ ex[1].ret.out.Stdout = WithoutFinalNewline(ex[1].pipeOut)
        /\ ex[1].ret.out.Stderr = WithoutFinalNewline(ex[1].pipeErr)

\* Rule (1): the value contains ':' and the segment test succeeds.
ListRule(value) ==
    /\ \E i \in 1..Len(value) : value[i] = ":"
    /\ LET segments == Split(value, ":")
           pathCount == Cardinality(pathSegments(segments))
       IN  pathCount > 0 /\ pathCount >= Len(segments) \div 2

\* Rule (2): the value begins with /, ./ or ../.
PathRule(value) ==
    \/ Len(value) >= 1 /\ value[1] = "/"
    \/ Len(value) >= 2 /\ SubSeq(value, 1, 2) = <<".", "/">>
    \/ Len(value) >= 3 /\ SubSeq(value, 1, 3) = <<".", ".", "/">>

\* Rule (3): the name, whatever its case, is one of the well-known names.
NameRule(key) ==
    \E k \in pathLikeKeys :
        /\ Len(k) = Len(key)
        /\ \A i \in 1..Len(k) : key[i] \in {k[i], ToLower(k[i])}

\* C34: the flag is chosen by strict precedence: the path-list flag by rule
\* (1), else the single-path flag by rule (2), else the single-path flag by
\* rule (3), else the plain flag; where rule (1) or (2) applies, the flag is
\* the same for every name.
C34_Precedence ==
    inferred.called =>
        LET key == inferred.key
            value == inferred.value
            flag == inferred.flag
        IN  /\ flag \in {WSLEnvFlagTranslatePathList, WSLEnvFlagTranslatePath,
                         WSLEnvFlagUnixToWin}
            /\ flag = WSLEnvFlagTranslatePathList <=> ListRule(value)
            /\ flag = WSLEnvFlagTranslatePath
                  <=> /\ ~ListRule(value)
                      /\ PathRule(value) \/ NameRule(key)
            /\ (ListRule(value) \/ PathRule(value))
                  => \A k \in FlagKeys : inferWSLEnvFlag(k, value) = flag

\* A well-known name in lower case got the path-list flag for a list of
\* paths, and the single-path flag for a value that is no path.
C34_Witness ==
    /\ inferred.called
    /\ inferred.key = <<"t", "m", "p">>
    /\ \/ /\ inferred.value = <<"/", "x", ":", "/", "x">>
          /\ inferred.flag = WSLEnvFlagTranslatePathList
       \/ /\ inferred.value = <<"x">>
          /\ inferred.flag = WSLEnvFlagTranslatePath

\* Caller c returns from its call in this step.
Returns(c) == tr'[c] /= tr[c] /\ tr'[c].pc = "returned"

\* What C36 says of one step of the path translator.
C36_CacheStep ==
    \* a stored entry keeps its value until the cache is cleared
    /\ \/ ClearPathCache
       \/ \A key \in DOMAIN pathCache :
             key \in DOMAIN pathCache' /\ pathCache'[key] = pathCache[key]
    /\ \A c \in Calls :
          Returns(c) =>
              LET dir == tr'[c].dir
                  path == tr'[c].path
                  key == cacheKey(dir, path)
              IN  \* a call for a stored path returns the stored value
                  /\ (path /= <<>> /\ key \in DOMAIN pathCache)
                        => (tr'[c].err = "nil"
                            /\ tr'[c].result = pathCache[key])
                  \* the value returned is the translation of that
                  \* direction, never one stored for the other
                  /\ (tr'[c].err = "nil" /\ dir = "w")
                        => tr'[c].result =
                              toWindowsPathInternal(readMountTable(procMounts),
                                                    Clean(path))
                  /\ (tr'[c].err = "nil" /\ dir = "u")
                        => tr'[c].result = toLinuxPathInternal(path).path
                  \* a failed call stores nothing
                  /\ tr'[c].err /= "nil" => pathCache' = pathCache
                  \* a call that finds no entry does not return from the
                  \* lookup: it recomputes
                  /\ (tr'[c].err = "nil" /\ key \notin DOMAIN pathCache)
                        => (tr[c].pc = "miss"
                            /\ key \in DOMAIN lookups'
                            /\ lookups'[key] = Lookups(key) + 1)
    \* ClearPathCache leaves no entry
    /\ ClearPathCache => pathCache' = EmptyCache

\* C36: path cache entries are stable. A stored translation is what every
\* later call with the same direction and path returns until ClearPathCache;
\* entries of the two directions never collide; a failed ToLinuxPath stores
\* nothing; and after ClearPathCache a call for any path recomputes.
C36_StableEntries == [][C36_CacheStep]_vars

\* The same path has been translated in both directions: one caller
\* returned the Windows form of "a" that the cache holds, and the other was
\* told that "a" is no Windows path.
C36_Witness ==
    \E c, d \in Calls :
        /\ tr[c].pc = "returned" /\ tr[c].dir = "w" /\ tr[c].path = <<"a">>
        /\ tr[c].err = "nil"
        /\ cacheKey("w", <<"a">>) \in DOMAIN pathCache
        /\ tr[c].result = pathCache[cacheKey("w", <<"a">>)]
        /\ tr[d].pc = "returned" /\ tr[d].dir = "u" /\ tr[d].path = <<"a">>
        /\ tr[d].err = ErrUnrecognized

\* Shutdown returns in this step.
C37_ReturnStep ==
    (shutdownPc = "waiting" /\ shutdownPc' = "returned") =>
        \A w \in Workers : wpc[w] = "exited"

\* While no more jobs have been submitted than the result buffer holds,
\* Submit is never parked and no worker waits for room in p.results: the
\* workers run to their exit, and Shutdown to its return, without a
\* consumer.
C37_NeverHeldUp ==
    nSubmitted <= Cap =>
        /\ sendq = <<>>
        /\ \A w \in Workers : wpc[w] = "send" => Len(results) < Cap

\* When Shutdown has returned, the result of every accepted job has been
\* pushed, and the consumer has read all of them but the 2*N the buffer
\* holds.
C37_ReadEnough ==
    shutdownPc = "returned" =>
        /\ Len(pushed) = Cardinality(accepted)
        /\ Len(delivered) >= Cardinality(accepted) - Cap

\* C37: Shutdown returns only after every worker has exited.  Without a
\* consumer, a Shutdown after M submitted jobs is never held up when M is at
\* most 2*N (Submit, Shutdown and the drain loop can run one after the
\* other), and otherwise does not return before a consumer has read all but
\* 2*N of the results.
C37_ShutdownWaits ==
    /\ [][C37_ReturnStep]_vars
    /\ [](C37_NeverHeldUp /\ C37_ReadEnough)

\* Shutdown has returned from a pool of one worker whose two results nobody
\* has read.
C37_Witness ==
    /\ shutdownPc = "returned"
    /\ concurrency = 1
    /\ consumerPc = "idle"
    /\ Len(results) = 2
    /\ \A w \in Workers : wpc[w] = "exited"

\* C38: no call of Shutdown closes the job queue a second time, and no
\* Submit sends on the job queue after it was closed, whether the calls
\* follow each other or run concurrently.
C38_NoClientPanic ==
    panicReason \notin {"close of closed channel: jobs",
                        "send on closed channel: jobs"}

\* C39: when a buffered-mode Execute has returned with a failure from before
\* its child was started (the decoder could not be created, or cmd.Start
\* failed), no task copying the caller's input stream was ever started:
\* none has read from the stream and none is still reading from it.
C39_StreamUntouched ==
    \A i \in Calls :
        (/\ ex[i].pc = "returned"
         /\ ~ex[i].config.Interactive
         /\ ex[i].child = "none"
         /\ ex[i].ret.err \in {ErrDecoder, ErrStart}) =>
            ex[i].stdinCopier = "none"

\* The reader goroutine of a stream has left its loop.
ReaderStopped(i, r) ==
    /\ ex[i].child /= "none"
    /\ ~ex[i].config.Interactive
    /\ r \notin ex[i].readers

\* The child has closed its end of the stream and all it wrote was read.
AtEndOfStream(i, r) ==
    /\ ex[i].child \in {"exited", "killed"}
    /\ IF r = "stdout" THEN ex[i].rdOut = Len(ex[i].pipeOut)
       ELSE ex[i].rdErr = Len(ex[i].pipeErr)

\* The child cannot write to one of its streams: pipe and buffer are full.
ChildBlocked(i) ==
    /\ ex[i].child = "running"
    /\ \/ Len(ex[i].pipeOut) - ex[i].rdOut >= MaxScanTokenSize + PipeCapacity
       \/ Len(ex[i].pipeErr) - ex[i].rdErr >= MaxScanTokenSize + PipeCapacity

\* C40: in buffered mode a reader leaves its loop only at the end of its
\* stream, whatever the length of the lines: no reader has stopped while the
\* child runs or while output is unread, the child is never blocked on a
\* full pipe whose reader has stopped, and when Execute has returned the
\* captured text of each stream holds every line the child wrote.
C40_ReadToEnd ==
    \A i \in Calls :
        /\ \A r \in {"stdout", "stderr"} :
              ReaderStopped(i, r) => AtEndOfStream(i, r)
        /\ ChildBlocked(i) => ex[i].readers = {"stdout", "stderr"}
        /\ (ex[i].pc = "returned" /\ ex[i].child /= "none"
              /\ ~ex[i].config.Interactive) =>
              /\ ex[i].ret.out.Stdout = TrimRight(ex[i].pipeOut)
              /\ ex[i].ret.out.Stderr = TrimRight(ex[i].pipeErr)

====
